---------------------------- MODULE Spec2Model ----------------------------
(***************************************************************************)
(* A model of the radb ADB client library.                                 *)
(*                                                                         *)
(* Byte strings are sequences of integers 0..255 (ASCII codes for text).   *)
(* The module holds several specifications, one per layer of the library:  *)
(*   SpecCodec   the pure functions of the wire codec and of the prefix    *)
(*               selection;                                                *)
(*   SpecProto   send_cmd_then_check_okay of both facades against the      *)
(*               bytes a server may reply;                                 *)
(*   SpecClient  an AdbClient and the connection it holds;                 *)
(*   SpecDevice  an AdbDevice and the connections its operations open;     *)
(*   SpecConnect threads dialing the server through safe_connect;          *)
(*   SpecStream  the SYNC and logcat iterators and the buffered            *)
(*               operations built on them.                                 *)
(***************************************************************************)
EXTENDS Integers, Sequences, FiniteSets, TLC

VARIABLES
    call, ret,                          \* the call under study and its result
    facade, stream, sent, outcome,      \* SpecProto: one framed command
    threads, server,                    \* SpecConnect: dialing threads, server
    conns, scripts,                     \* connections opened; server scripts
    device, handle, fs,                 \* an AdbDevice, a returned stream, files
    client                              \* an AdbClient

vars == <<call, ret, facade, stream, sent, outcome, threads, server,
          conns, scripts, device, handle, fs, client>>

\* The variables a specification does not use keep these values.
NoRet == [done |-> FALSE]

IdleCodec == ret = NoRet

IdleProto ==
    /\ facade = "blocking"
    /\ stream = [buf |-> <<>>, tail |-> "eof"]
    /\ sent = <<>>
    /\ outcome = NoRet

IdleConnect ==
    /\ threads = <<>>
    /\ server = [up |-> TRUE, spawns |-> 0, adb |-> TRUE]

NoHandle == [kind |-> "none"]

IdleDevice ==
    /\ conns = <<>>
    /\ scripts = <<>>
    /\ device = [serial |-> <<>>, transport_id |-> <<>>]
    /\ handle = NoHandle
    /\ fs = [exists |-> FALSE, content |-> <<>>]
    /\ client = NoHandle

protoVars == <<facade, stream, sent, outcome>>
connectVars == <<threads, server>>
deviceVars == <<conns, scripts, device, handle, fs, client>>

(***************************************************************************)
(* Bounds of the model.                                                    *)
(***************************************************************************)
MaxCmdLen == 3
MaxMsgLen == 2
MaxOps == 2
MaxPolls == 3
MaxChunks == 2
MaxPad == 8

(***************************************************************************)
(* Generic helpers.                                                        *)
(***************************************************************************)
Min(a, b) == IF a < b THEN a ELSE b

Take(s, n) == SubSeq(s, 1, Min(n, Len(s)))

Drop(s, n) == SubSeq(s, Min(n, Len(s)) + 1, Len(s))

\* F applied to the value v: names an intermediate result of a function
Bind(v, F(_)) == F(v)

RECURSIVE Repeat(_, _)
Repeat(b, n) == IF n = 0 THEN <<>> ELSE <<b>> \o Repeat(b, n - 1)

RECURSIVE SeqsUpTo(_, _)
SeqsUpTo(S, n) ==
    IF n = 0 THEN {<<>>}
    ELSE LET shorter == SeqsUpTo(S, n - 1)
         IN  shorter \cup {Append(s, b) : s \in shorter, b \in S}

(***************************************************************************)
(* ASCII text used by the program.                                         *)
(***************************************************************************)
OKAY == <<79, 75, 65, 89>>
FAIL == <<70, 65, 73, 76>>
DATA == <<68, 65, 84, 65>>
DONE == <<68, 79, 78, 69>>
DENT == <<68, 69, 78, 84>>
STAT == <<83, 84, 65, 84>>
LIST == <<76, 73, 83, 84>>
RECV == <<82, 69, 67, 86>>

\* "host-transport-id:", "host-serial:", "host:transport:", ":"
HostTransportIdStr == <<104, 111, 115, 116, 45, 116, 114, 97, 110, 115, 112,
                        111, 114, 116, 45, 105, 100, 58>>
HostSerialStr == <<104, 111, 115, 116, 45, 115, 101, 114, 105, 97, 108, 58>>
HostTransportStr == <<104, 111, 115, 116, 58, 116, 114, 97, 110, 115, 112,
                      111, 114, 116, 58>>
Colon == <<58>>

\* "get-state", "list-forward", "sync:", "shell:", "tcpip:"
GetStateStr == <<103, 101, 116, 45, 115, 116, 97, 116, 101>>
ListForwardStr == <<108, 105, 115, 116, 45, 102, 111, 114, 119, 97, 114, 100>>
SyncStr == <<115, 121, 110, 99, 58>>
ShellStr == <<115, 104, 101, 108, 108, 58>>
TcpipStr == <<116, 99, 112, 105, 112, 58>>

\* "host:version", "host:devices", "host:kill", "host:connect:",
\* "host:disconnect:"
HostVersionStr == <<104, 111, 115, 116, 58, 118, 101, 114, 115, 105, 111, 110>>
HostDevicesStr == <<104, 111, 115, 116, 58, 100, 101, 118, 105, 99, 101, 115>>
HostKillStr == <<104, 111, 115, 116, 58, 107, 105, 108, 108>>
HostConnectStr == <<104, 111, 115, 116, 58, 99, 111, 110, 110, 101, 99, 116, 58>>
HostDisconnectStr == <<104, 111, 115, 116, 58, 100, 105, 115, 99, 111, 110,
                       110, 101, 99, 116, 58>>

(***************************************************************************)
(* Number formatting and parsing of the Rust standard library.             *)
(***************************************************************************)
\* The ASCII code of the lowercase hexadecimal digit d (0..15).
LowerHexDigit(d) == IF d < 10 THEN 48 + d ELSE 87 + d

RECURSIVE HexDigits(_)
HexDigits(n) ==
    IF n < 16 THEN <<LowerHexDigit(n)>>
    ELSE Append(HexDigits(n \div 16), LowerHexDigit(n % 16))

\* format!("{:04x}", n): lowercase hex, zero-padded to a MINIMUM width of 4.
FormatHex04(n) ==
    LET h == HexDigits(n)
    IN  IF Len(h) < 4 THEN Repeat(48, 4 - Len(h)) \o h ELSE h

RECURSIVE DecDigits(_)
DecDigits(n) ==
    IF n < 10 THEN <<48 + n>>
    ELSE Append(DecDigits(n \div 10), 48 + (n % 10))

\* format!("{}", n) of an unsigned integer.
FormatDec(n) == DecDigits(n)

\* char::to_digit(16) on one byte of a lossily decoded string: -1 when the
\* byte is no hexadecimal digit (every byte >= 128 decodes to a character
\* that is no digit).
HexValue(b) ==
    IF b >= 48 /\ b <= 57 THEN b - 48
    ELSE IF b >= 97 /\ b <= 102 THEN b - 87
    ELSE IF b >= 65 /\ b <= 70 THEN b - 55
    ELSE -1

RECURSIVE HexNumber(_)
HexNumber(ds) ==
    IF ds = <<>> THEN 0
    ELSE HexNumber(SubSeq(ds, 1, Len(ds) - 1)) * 16 + HexValue(ds[Len(ds)])

\* usize::from_str_radix(s, 16): an optional '+' followed by at least one
\* digit; -1 stands for Err(ParseIntError).
from_str_radix16(s) ==
    LET digits == IF s # <<>> /\ s[1] = 43 THEN Drop(s, 1) ELSE s
    IN  IF digits = <<>> THEN -1
        ELSE IF \E i \in 1..Len(digits) : HexValue(digits[i]) < 0 THEN -1
        ELSE HexNumber(digits)

(***************************************************************************)
(* Errors.  An error value is a record with the variant of AdbError as     *)
(* kind.                                                                   *)
(***************************************************************************)
Ok(v) == [ok |-> TRUE, val |-> v]

Err(kind, msg) == [ok |-> FALSE, kind |-> kind, msg |-> msg]

protocol_error(msg) == Err("ProtocolError", msg)

parse_error(msg) == Err("ParseError", msg)

network_error(msg) == Err("NetworkError", msg)

command_failed(command, reason) ==
    [ok |-> FALSE, kind |-> "CommandFailed", msg |-> reason, command |-> command]

io_error(msg) == Err("Io", msg)

(***************************************************************************)
(* protocols::protocol_logic                                               *)
(***************************************************************************)
build_command_packet_nopad(command) == HexDigits(Len(command)) \o command

build_command_packet(command) == FormatHex04(Len(command)) \o command

parse_length_prefix(data) ==
    IF Len(data) < 4 THEN protocol_error("Invalid length prefix")
    ELSE LET n == from_str_radix16(Take(data, 4))
         IN  IF n < 0 THEN protocol_error("Invalid length ") ELSE Ok(n)

is_okay_response(data) == data = OKAY

is_fail_response(data) == data = FAIL

(***************************************************************************)
(* The inbound side of a TCP connection: buf holds the bytes the server    *)
(* has sent and the client has not read yet; tail says what a read meets   *)
(* once buf is drained: "eof" (the peer closed) or "err" (the connection   *)
(* was reset: one read fails, later reads see the end of the stream).      *)
(***************************************************************************)
\* String::from_utf8_lossy: every byte that cannot occur in UTF-8 becomes
\* U+FFFD (EF BF BD).  Exact for byte strings in which no lead byte
\* 0xC2..0xF4 is followed by a continuation byte 0x80..0xBF, which is what
\* the model's streams are.
RECURSIVE from_utf8_lossy(_)
from_utf8_lossy(bytes) ==
    IF bytes = <<>> THEN <<>>
    ELSE (IF bytes[1] < 128 THEN <<bytes[1]>> ELSE <<239, 191, 189>>)
         \o from_utf8_lossy(Tail(bytes))

\* the read timeout of the socket behind s: TcpStream::connect leaves it
\* unset, set_read_timeout sets it
read_timeout(s) ==
    IF "read_timeout" \in DOMAIN s THEN s.read_timeout ELSE <<>>

\* a read that never returns: the calling thread stays in it
Blocked == [ok |-> FALSE, kind |-> "blocked", msg |-> "read never returns"]

\* a read on a connection the peer keeps open and sends nothing on (tail
\* "silent"): it waits, for ever without a read timeout, and ends with
\* io::ErrorKind::TimedOut (WouldBlock on Unix) with one
Starved(s) ==
    IF read_timeout(s) = <<>> THEN Blocked ELSE io_error("timed out")

\* Read::read into a buffer of n bytes; k >= 1 is the number of bytes the
\* transport happens to deliver to this call.
read(s, n, k) ==
    IF n = 0 THEN [res |-> Ok(<<>>), s |-> s]
    ELSE IF s.buf = <<>>
         THEN IF s.tail = "eof" THEN [res |-> Ok(<<>>), s |-> s]
              ELSE IF s.tail = "silent" THEN [res |-> Starved(s), s |-> s]
              ELSE [res |-> io_error("read failed"),
                    s |-> [s EXCEPT !.tail = "eof"]]
         ELSE [res |-> Ok(Take(s.buf, Min(n, k))),
               s |-> [s EXCEPT !.buf = Drop(s.buf, Min(n, k))]]

\* Read::read_exact: repeats read until n bytes are there.
read_exact(s, n) ==
    IF Len(s.buf) >= n
    THEN [res |-> Ok(Take(s.buf, n)), s |-> [s EXCEPT !.buf = Drop(s.buf, n)]]
    ELSE IF s.tail = "silent"
    THEN [res |-> Starved(s), s |-> [s EXCEPT !.buf = <<>>]]
    ELSE [res |-> io_error(IF s.tail = "eof" THEN "UnexpectedEof"
                           ELSE "read failed"),
          s |-> [buf |-> <<>>, tail |-> "eof"]]

(***************************************************************************)
(* protocols::blocking::AdbProtocol                                        *)
(***************************************************************************)
\* recv: ONE read of at most n bytes
recv(s, n, k) == read(s, n, k)

blocking_read_string(s, n, k) ==
    Bind(recv(s, n, k), LAMBDA r :
         IF r.res.ok THEN [res |-> Ok(from_utf8_lossy(r.res.val)), s |-> r.s]
         ELSE r)

\* the body of read_response once the four length bytes are in r
ReadBody(r) ==
    IF ~r.res.ok THEN r
    ELSE Bind(parse_length_prefix(r.res.val), LAMBDA length :
              IF ~length.ok
              THEN [res |-> io_error("Invalid length"), s |-> r.s]
              ELSE Bind(read_exact(r.s, length.val), LAMBDA d :
                        IF d.res.ok
                        THEN [res |-> Ok(from_utf8_lossy(d.res.val)), s |-> d.s]
                        ELSE d))

blocking_read_response(s, k) == ReadBody(recv(s, 4, k))

\* what send_cmd_then_check_okay hands back: the result, the stream as it
\* left it, and the packet it wrote
Sent(res, s, packet) == [res |-> res, s |-> s, sent |-> packet]

blocking_send_cmd_then_check_okay(s, command, k) ==
    Bind(build_command_packet(command), LAMBDA packet :
    Bind(read_exact(s, 4), LAMBDA r :
         IF ~r.res.ok THEN Sent(r.res, r.s, packet)
         ELSE IF is_okay_response(r.res.val) THEN Sent(Ok(<<>>), r.s, packet)
         ELSE IF is_fail_response(r.res.val)
         THEN Bind(blocking_read_response(r.s, k), LAMBDA m :
                   IF ~m.res.ok THEN Sent(m.res, m.s, packet)
                   ELSE Sent(network_error(m.res.val), m.s, packet))
         ELSE Sent(parse_error("Unexpected response"), r.s, packet)))

(***************************************************************************)
(* protocols::tokio_async::AdbProtocol                                     *)
(***************************************************************************)
tokio_read_response(s) == ReadBody(read_exact(s, 4))

tokio_send_cmd_then_check_okay(s, command) ==
    Bind(build_command_packet(command), LAMBDA packet :
    Bind(read_exact(s, 4), LAMBDA r :
         IF ~r.res.ok THEN Sent(r.res, r.s, packet)
         ELSE IF is_okay_response(r.res.val) THEN Sent(Ok(<<>>), r.s, packet)
         ELSE IF is_fail_response(r.res.val)
         THEN Bind(tokio_read_response(r.s), LAMBDA m :
                   IF ~m.res.ok THEN Sent(m.res, m.s, packet)
                   ELSE Sent(command_failed(command, m.res.val), m.s, packet))
         ELSE Sent(command_failed(command, "Unexpected response"), r.s,
                   packet)))

(***************************************************************************)
(* client::adb_device::AdbDevice, the device identifier.  An Option is a   *)
(* sequence of length 0 (None) or 1 (Some).                                *)
(***************************************************************************)
None == <<>>

Some(x) == <<x>>

get_open_transport_prefix_swapped(dev, command) ==
    IF dev.serial = None /\ dev.transport_id = None
    THEN protocol_error("TransportID and Serial Can Not Been None At Same Time")
    ELSE IF command # None
         THEN IF dev.transport_id # None
              THEN Ok(HostTransportIdStr \o FormatDec(dev.transport_id[1])
                      \o Colon \o command[1])
              ELSE Ok(HostTransportStr \o dev.serial[1] \o Colon \o command[1])
         ELSE IF dev.transport_id # None
              THEN Ok(HostTransportIdStr \o FormatDec(dev.transport_id[1]))
              ELSE Ok(HostSerialStr \o dev.serial[1])

get_open_transport_prefix(dev, command) ==
    IF dev.serial = None /\ dev.transport_id = None
    THEN protocol_error("TransportID and Serial Can Not Been None At Same Time")
    ELSE IF command # None
         THEN IF dev.transport_id # None
              THEN Ok(HostTransportIdStr \o FormatDec(dev.transport_id[1])
                      \o Colon \o command[1])
              ELSE Ok(HostSerialStr \o dev.serial[1] \o Colon \o command[1])
         ELSE IF dev.transport_id # None
              THEN Ok(HostTransportIdStr \o FormatDec(dev.transport_id[1]))
              ELSE Ok(HostTransportStr \o dev.serial[1])

(***************************************************************************)
(* SpecCodec: the pure functions applied to inputs drawn by Init.          *)
(***************************************************************************)
\* Command bytes: 'a', ':' and a space.
CmdBytes == {97, 58, 32}

\* Lengths that exercise every hexadecimal digit position of the header,
\* and one length that no longer fits four digits.
LongLens == {9, 10, 15, 16, 17, 255, 256, 4095, 4096, 43981, 65535, 65536}

Commands ==
    SeqsUpTo(CmdBytes, MaxCmdLen) \cup {[i \in 1..n |-> 97] : n \in LongLens}

\* The serials "S" and "e5"; transport ids over the range of u8.
Serials == {<<83>>, <<101, 53>>}

TransportIds == {0, 7, 42, 255}

Devices ==
    [serial : {None} \cup {Some(x) : x \in Serials},
     transport_id : {None} \cup {Some(t) : t \in TransportIds}]

SubCommands == {None, Some(GetStateStr), Some(ListForwardStr)}

CodecCalls ==
    {[fn |-> "build_command_packet", command |-> c] : c \in Commands}
    \cup {[fn |-> "get_open_transport_prefix", dev |-> d, command |-> c] :
            d \in Devices, c \in SubCommands}

InitCodec ==
    /\ call \in CodecCalls
    /\ ret = NoRet
    /\ IdleProto
    /\ IdleConnect
    /\ IdleDevice

\* build_command_packet(c), and parse_length_prefix on the head of its output
BuildCommandPacket ==
    /\ call.fn = "build_command_packet"
    /\ ret = NoRet
    /\ LET packet == build_command_packet(call.command)
       IN  ret' = [done |-> TRUE, packet |-> packet,
                   length |-> parse_length_prefix(Take(packet, 4))]
    /\ UNCHANGED <<call, protoVars, connectVars, deviceVars>>

GetOpenTransportPrefix ==
    /\ call.fn = "get_open_transport_prefix"
    /\ ret = NoRet
    /\ ret' = [done |-> TRUE,
               prefix |-> get_open_transport_prefix(call.dev, call.command)]
    /\ UNCHANGED <<call, protoVars, connectVars, deviceVars>>

NextCodec == BuildCommandPacket \/ GetOpenTransportPrefix

SpecCodec == InitCodec /\ [][NextCodec]_vars

(***************************************************************************)
(* C2: for every command c of at most 0xFFFF bytes, the packet is the four *)
(* lowercase hexadecimal ASCII digits of len(c) followed by c itself;      *)
(* parse_length_prefix on its first four bytes gives len(c), and the       *)
(* len(c) bytes after the header are c.                                    *)
(***************************************************************************)
LowerHexAlphabet ==
    <<48, 49, 50, 51, 52, 53, 54, 55, 56, 57, 97, 98, 99, 100, 101, 102>>

IsHeaderOf(h, n) ==
    /\ Len(h) = 4
    /\ \E d1, d2, d3, d4 \in 1..16 :
        /\ h = <<LowerHexAlphabet[d1], LowerHexAlphabet[d2],
                 LowerHexAlphabet[d3], LowerHexAlphabet[d4]>>
        /\ n = (d1 - 1) * 4096 + (d2 - 1) * 256 + (d3 - 1) * 16 + (d4 - 1)

FrameRoundTrip ==
    (/\ call.fn = "build_command_packet"
     /\ ret.done
     /\ Len(call.command) <= 65535)
    => /\ Len(ret.packet) = 4 + Len(call.command)
       /\ IsHeaderOf(SubSeq(ret.packet, 1, 4), Len(call.command))
       /\ ret.length.ok
       /\ ret.length.val = Len(call.command)
       /\ SubSeq(ret.packet, 5, 4 + ret.length.val) = call.command

\* a framed command whose length needs a letter digit and zero padding
FrameRoundTripWitness ==
    /\ call.fn = "build_command_packet"
    /\ ret.done
    /\ Len(call.command) = 255
    /\ SubSeq(ret.packet, 1, 4) = <<48, 48, 102, 102>>

(***************************************************************************)
(* C3: the selector follows the table: without sub-command it is           *)
(* host-transport-id:<id> when transport_id is set and                     *)
(* host:transport:<serial> when only serial is set; with sub-command C it  *)
(* is host-transport-id:<id>:<C> resp. host-serial:<serial>:<C>.           *)
(***************************************************************************)
\* the decimal text of a u8, written out digit by digit
U8Text(n) ==
    IF n < 10 THEN <<48 + n>>
    ELSE IF n < 100 THEN <<48 + (n \div 10), 48 + (n % 10)>>
    ELSE <<48 + (n \div 100), 48 + ((n \div 10) % 10), 48 + (n % 10)>>

TransportPrefixSelection ==
    (call.fn = "get_open_transport_prefix" /\ ret.done)
    => LET d == call.dev
           c == call.command
       IN  /\ (d.transport_id # None /\ c = None) =>
                /\ ret.prefix.ok
                /\ ret.prefix.val = HostTransportIdStr \o U8Text(d.transport_id[1])
           /\ (d.transport_id = None /\ d.serial # None /\ c = None) =>
                /\ ret.prefix.ok
                /\ ret.prefix.val = HostTransportStr \o d.serial[1]
           /\ (d.transport_id # None /\ c # None) =>
                /\ ret.prefix.ok
                /\ ret.prefix.val =
                     HostTransportIdStr \o U8Text(d.transport_id[1]) \o <<58>> \o c[1]
           /\ (d.transport_id = None /\ d.serial # None /\ c # None) =>
                /\ ret.prefix.ok
                /\ ret.prefix.val = HostSerialStr \o d.serial[1] \o <<58>> \o c[1]

\* serial "S", no transport id, sub-command get-state: host-serial:S:get-state
TransportPrefixSelectionWitness ==
    /\ call.fn = "get_open_transport_prefix"
    /\ ret.done
    /\ call.dev = [serial |-> Some(<<83>>), transport_id |-> None]
    /\ call.command = Some(GetStateStr)
    /\ ret.prefix.val = <<104, 111, 115, 116, 45, 115, 101, 114, 105, 97, 108,
                          58, 83, 58, 103, 101, 116, 45, 115, 116, 97, 116, 101>>

(***************************************************************************)
(* SpecProto: one framed command against the bytes a server may answer.    *)
(***************************************************************************)
Facades == {"blocking", "tokio_async"}

\* Message bytes: 'a', a space, and 0xFF (never valid in UTF-8).
MsgBytes == {97, 32, 255}

Messages == SeqsUpTo(MsgBytes, MaxMsgLen)

\* "DONE", "okay", "FAIX", "OKAZ": four bytes that are no status word
OtherWords == {DONE, <<111, 107, 97, 121>>, <<70, 65, 73, 88>>, <<79, 75, 65, 90>>}

\* What a server may put on the wire after a command: a status word, FAIL
\* with its length-prefixed message, a FAIL whose message is cut short or
\* whose length is no hexadecimal number, and replies cut inside the word.
ServerReplies ==
    {OKAY}
    \cup {FAIL \o FormatHex04(Len(m)) \o m : m \in Messages}
    \cup {FAIL, FAIL \o <<48, 48>>, FAIL \o <<48, 48, 48, 50, 97>>,
          FAIL \o <<48, 48, 122, 122>>}
    \cup OtherWords
    \cup {<<>>, <<79, 75>>}

ProtoCommands == {HostVersionStr, HostDevicesStr}

InitProto ==
    /\ facade \in Facades
    /\ \E c \in ProtoCommands, r \in ServerReplies :
         /\ call = [fn |-> "send_cmd_then_check_okay", command |-> c, reply |-> r]
         /\ \E t \in {"eof", "err"} : stream = [buf |-> r, tail |-> t]
    /\ sent = <<>>
    /\ outcome = NoRet
    /\ IdleCodec
    /\ IdleConnect
    /\ IdleDevice

BlockingSendCmdThenCheckOkay ==
    /\ facade = "blocking"
    /\ outcome = NoRet
    /\ \E k \in 1..4 :
         LET r == blocking_send_cmd_then_check_okay(stream, call.command, k)
         IN  /\ outcome' = [done |-> TRUE, res |-> r.res]
             /\ stream' = r.s
             /\ sent' = sent \o r.sent
    /\ UNCHANGED <<call, ret, facade, connectVars, deviceVars>>

TokioSendCmdThenCheckOkay ==
    /\ facade = "tokio_async"
    /\ outcome = NoRet
    /\ LET r == tokio_send_cmd_then_check_okay(stream, call.command)
       IN  /\ outcome' = [done |-> TRUE, res |-> r.res]
           /\ stream' = r.s
           /\ sent' = sent \o r.sent
    /\ UNCHANGED <<call, ret, facade, connectVars, deviceVars>>

NextProto == BlockingSendCmdThenCheckOkay \/ TokioSendCmdThenCheckOkay

SpecProto == InitProto /\ [][NextProto]_vars

(***************************************************************************)
(* C1: for every 4-byte status word answered to a framed command, in both  *)
(* facades: OKAY yields success; FAIL followed by a length-prefixed        *)
(* message yields a command-failed error carrying that message verbatim;   *)
(* any other four bytes yield a protocol-error.                            *)
(***************************************************************************)
\* the reply is FAIL, four hexadecimal digits of len(m), and m
IsFailWith(reply, m) ==
    /\ Len(reply) = 8 + Len(m)
    /\ SubSeq(reply, 1, 4) = FAIL
    /\ IsHeaderOf(SubSeq(reply, 5, 8), Len(m))
    /\ SubSeq(reply, 9, Len(reply)) = m

StatusParser ==
    (/\ call.fn = "send_cmd_then_check_okay"
     /\ outcome.done
     /\ Len(call.reply) >= 4)
    => LET word == SubSeq(call.reply, 1, 4)
       IN  /\ word = OKAY => outcome.res.ok
           /\ \A m \in Messages :
                IsFailWith(call.reply, m) =>
                    /\ ~outcome.res.ok
                    /\ outcome.res.kind = "CommandFailed"
                    /\ outcome.res.msg = m
           /\ word \notin {OKAY, FAIL} =>
                    /\ ~outcome.res.ok
                    /\ outcome.res.kind = "ProtocolError"

(***************************************************************************)
(* SpecConnect: threads dialing the ADB server.  Each thread runs one of   *)
(* the dialing procedures of the repository; the server may be down, may   *)
(* come up or go down at any time, and the adb executable may be missing.  *)
(***************************************************************************)
NThreads == 2

Threads == 1..NThreads

DialProcs == {"AdbClient::new", "AdbDevice::open_transport",
              "AdbSocketConfig::safe_connect", "AdbConnection::safe_connect"}

NewThread(proc) ==
    [proc |-> proc, pc |-> "connect", attempts |-> 0, spawned |-> 0,
     failed1 |-> FALSE, result |-> "none"]

InitConnect ==
    /\ threads \in [Threads -> {NewThread(p) : p \in DialProcs}]
    /\ \E up \in BOOLEAN, adb \in BOOLEAN :
         server = [up |-> up, spawns |-> 0, adb |-> adb]
    /\ call = [fn |-> "connect"]
    /\ IdleCodec
    /\ IdleProto
    /\ IdleDevice

\* utils::start_adb_server without the adb_path lookup: spawns
\* `adb start-server` and waits for it; the server may be up afterwards.
start_adb_server(srv, up) ==
    [srv EXCEPT !.spawns = @ + 1, !.up = srv.up \/ up]

\* The first TcpStream::connect of each procedure, and what the procedure
\* does when it fails: AdbClient::new unwraps, open_transport returns the
\* io::Error, the safe_connect drafts go on to start the server.
Connect(t) ==
    /\ threads[t].pc = "connect"
    /\ LET th == [threads[t] EXCEPT !.attempts = @ + 1]
       IN  threads' = [threads EXCEPT ![t] =
             IF server.up THEN [th EXCEPT !.pc = "done", !.result = "ok"]
             ELSE IF th.proc = "AdbClient::new"
                  THEN [th EXCEPT !.pc = "done", !.failed1 = TRUE,
                                  !.result = "panic"]
             ELSE IF th.proc = "AdbDevice::open_transport"
                  THEN [th EXCEPT !.pc = "done", !.failed1 = TRUE,
                                  !.result = "Io"]
             ELSE [th EXCEPT !.pc = "start_server", !.failed1 = TRUE]]
    /\ UNCHANGED <<server, call, ret, protoVars, deviceVars>>

\* AdbSocketConfig::safe_connect calls utils::start_adb_server, which
\* panics when adb is not found; AdbConnection::safe_connect returns the
\* adb_path error with `?`.
StartServer(t) ==
    /\ threads[t].pc = "start_server"
    /\ IF ~server.adb
       THEN /\ threads' = [threads EXCEPT ![t] =
                 [@ EXCEPT !.pc = "done",
                           !.result = IF threads[t].proc = "AdbSocketConfig::safe_connect"
                                      THEN "panic" ELSE "Anyhow"]]
            /\ UNCHANGED server
       ELSE /\ \E up \in BOOLEAN : server' = start_adb_server(server, up)
            /\ threads' = [threads EXCEPT ![t] =
                 [@ EXCEPT !.pc = "retry",
                           !.spawned = @ + (server'.spawns - server.spawns)]]
    /\ UNCHANGED <<call, ret, protoVars, deviceVars>>

\* the second create_socket of the safe_connect drafts
Retry(t) ==
    /\ threads[t].pc = "retry"
    /\ threads' = [threads EXCEPT ![t] =
         [@ EXCEPT !.pc = "done", !.attempts = @ + 1,
                   !.result = IF server.up THEN "ok" ELSE "Anyhow"]]
    /\ UNCHANGED <<server, call, ret, protoVars, deviceVars>>

\* the environment: the server dies or is started by someone else
ServerChange ==
    /\ server' = [server EXCEPT !.up = ~@]
    /\ UNCHANGED <<threads, call, ret, protoVars, deviceVars>>

NextConnect ==
    \/ \E t \in Threads : Connect(t)
    \/ \E t \in Threads : StartServer(t)
    \/ \E t \in Threads : Retry(t)
    \/ ServerChange

SpecConnect == InitConnect /\ [][NextConnect]_vars

(***************************************************************************)
(* C6: when a connect attempt fails, the client invokes `adb start-server` *)
(* exactly once and retries the connect exactly once; the caller then      *)
(* gets success (the first failure is not reported) or a connection-failed *)
(* error value, never a crash.                                             *)
(***************************************************************************)
ConnectRecovery ==
    \A t \in DOMAIN threads :
        (threads[t].pc = "done" /\ threads[t].failed1)
        => /\ threads[t].spawned = 1
           /\ threads[t].attempts = 2
           /\ threads[t].result \in {"ok", "ConnectionFailed"}

(***************************************************************************)
(* C7: `adb start-server` is spawned at most once in the process, whatever *)
(* the interleaving of the threads whose first connect fails.              *)
(***************************************************************************)
SpawnOnce == server.spawns <= 1

(***************************************************************************)
(* Connections.  A connection record keeps the inbound side (peer), every  *)
(* write the client made on it (sent: the role the writing code gives the  *)
(* bytes and the number of the operation that wrote them), whether the     *)
(* socket is still open, the number of the operation that dialed it, and   *)
(* what the server was set to send on it (plan).                           *)
(***************************************************************************)
\* the number of bytes one recv asks for in read_until_close
ReadChunk == 4096

\* u32::from_le_bytes and u32::to_le_bytes.  The checker's integers end at
\* 2^31 - 1: a value above that is kept as 2^31 - 1, which is still larger
\* than every stream of the model, the only thing such a value is compared to.
LE32(b) ==
    IF b[4] >= 128 THEN 2147483647
    ELSE b[1] + 256 * b[2] + 65536 * b[3] + 16777216 * b[4]

ToLE32(n) ==
    <<n % 256, (n \div 256) % 256, (n \div 65536) % 256, (n \div 16777216) % 256>>

\* anyhow's .context(ctx)? and .map_err(|e| anyhow!(ctx, e))?, converted
\* into AdbError::Anyhow
anyhow_context(err, ctx) ==
    [ok |-> FALSE, kind |-> "Anyhow", msg |-> ctx, cause |-> err]

\* anyhow!("<text>{}", detail), an item of an anyhow::Result stream
anyhow_msg(text, detail) ==
    [ok |-> FALSE, kind |-> "Anyhow", msg |-> text, detail |-> detail]

from_display(msg) == Err("Unknown", msg)

\* a panic of the calling thread, seen where the result would have been
Panic(msg) == [ok |-> FALSE, kind |-> "panic", msg |-> msg]

\* a connection to a server that runs script; window, when the script has
\* one, is the number of bytes the socket takes in one write
NewConn(script, n) ==
    IF "window" \in DOMAIN script
    THEN [peer |-> [buf |-> script.buf, tail |-> script.tail],
          sent |-> <<>>, open |-> TRUE, op |-> n, plan |-> script.plan,
          window |-> script.window]
    ELSE [peer |-> [buf |-> script.buf, tail |-> script.tail],
          sent |-> <<>>, open |-> TRUE, op |-> n, plan |-> script.plan]

\* a drop that leaves the socket open
Close_leak(c) == c

\* dropping the TcpStream closes the socket
Close(c) == [c EXCEPT !.open = FALSE]

\* tokio read_string: ONE read into a zeroed buffer of `size` bytes, and
\* the WHOLE buffer is decoded, whatever the read returned.  Of the NUL
\* bytes that follow the data the model keeps at most MaxPad.
tokio_read_string(s, size, k) ==
    Bind(read(s, size, k), LAMBDA r :
         IF r.res.ok
         THEN [res |-> Ok(from_utf8_lossy(
                              r.res.val
                              \o Repeat(0, Min(size - Len(r.res.val), MaxPad)))),
               s |-> r.s]
         ELSE r)

read_string(f, s, n, k) ==
    IF f = "blocking" THEN blocking_read_string(s, n, k)
    ELSE tokio_read_string(s, n, k)

read_response(f, s, k) ==
    IF f = "blocking" THEN blocking_read_response(s, k)
    ELSE tokio_read_response(s)

send_cmd_then_check_okay(f, s, command, k) ==
    IF f = "blocking" THEN blocking_send_cmd_then_check_okay(s, command, k)
    ELSE tokio_send_cmd_then_check_okay(s, command)

\* read_until_close: recv(4096) after recv(4096), every chunk appended to
\* content, until a recv finds nothing
RECURSIVE read_until_close_loop(_, _, _)
read_until_close_loop(buf, content, k) ==
    IF buf = <<>> THEN content
    ELSE read_until_close_loop(Drop(buf, Min(ReadChunk, k)),
                               content \o Take(buf, Min(ReadChunk, k)), k)

\* the recv that finds nothing left ends the loop: Ok(content) at the close,
\* the error alone when the read fails
read_until_close(s, k) ==
    Bind(read_until_close_loop(s.buf, <<>>, k), LAMBDA content :
         Bind(recv([s EXCEPT !.buf = <<>>], ReadChunk, k), LAMBDA last :
              IF last.res.ok
              THEN [res |-> Ok(from_utf8_lossy(content)), s |-> last.s]
              ELSE last))

\* send_cmd_then_check_okay on connection c by operation n
conn_send_cmd(f, c, command, role, n, k) ==
    Bind(send_cmd_then_check_okay(f, c.peer, command, k), LAMBDA r :
         [res |-> r.res,
          c |-> [c EXCEPT !.peer = r.s,
                          !.sent = Append(@, [role |-> role, bytes |-> r.sent,
                                              op |-> n])]])

\* Write::write on connection c: ONE write, which accepts the buffer or,
\* when the socket has room for c.window bytes only, its beginning
write(c, data) ==
    IF "window" \in DOMAIN c THEN Take(data, Min(Len(data), c.window))
    ELSE data

\* AdbProtocol::send of a raw buffer on connection c by operation n: one
\* write, whose count the callers drop
conn_send(c, data, role, n) ==
    [c EXCEPT !.sent = Append(@, [role |-> role, bytes |-> write(c, data),
                                  op |-> n])]

(***************************************************************************)
(* client::adb_device, both facades (f).  An operation returns res, the    *)
(* result handed to the caller; cs, the connections it opened, in their    *)
(* final state; and dialed, the number of TcpStream::connect calls it      *)
(* made.  script is what the server does with a connection: refuse it      *)
(* (up = FALSE) or send buf and then end with tail.  n numbers the         *)
(* operation.                                                              *)
(***************************************************************************)
NoTransport(f, prefix) ==
    [res |-> IF f = "blocking"
             THEN anyhow_context(prefix, "Get Open Transport Prefix Failed")
             ELSE parse_error("Get Open Transport Prefix Failed"),
     cs |-> <<>>, dialed |-> 0]

Refused == [res |-> io_error("connect failed"), cs |-> <<>>, dialed |-> 1]

\* an operation's return once its connection is dialed
Return(res, c) == [res |-> res, cs |-> <<c>>, dialed |-> 1]

\* the return of open_transport once the prefix is sent on the new stream
Opened(f, r) ==
    IF r.res.ok THEN Return(Ok(<<>>), r.c)
    ELSE Return(IF f = "blocking"
                THEN anyhow_context(r.res,
                                    "Send Command >> .. and Check Okay Failed")
                ELSE r.res,
                Close(r.c))

open_transport_resend(f, dev, command, script, n, k) ==
    Bind(get_open_transport_prefix(dev, command), LAMBDA prefix :
         IF ~prefix.ok THEN NoTransport(f, prefix)
         ELSE IF ~script.up THEN Refused
         ELSE Bind(conn_send_cmd(f, NewConn(script, n), prefix.val, "prefix",
                                 n, k),
                   LAMBDA r0 :
                   Opened(f, conn_send_cmd(f, r0.c, prefix.val, "prefix",
                                           n, k))))

open_transport(f, dev, command, script, n, k) ==
    Bind(get_open_transport_prefix(dev, command), LAMBDA prefix :
         IF ~prefix.ok THEN NoTransport(f, prefix)
         ELSE IF ~script.up THEN Refused
         ELSE Opened(f, conn_send_cmd(f, NewConn(script, n), prefix.val,
                                      "prefix", n, k)))

\* the connection c after a read left its inbound side as s
After(c, s) == [c EXCEPT !.peer = s]

\* get_state ("get-state"), get_serialno, get_devpath, get_features
get_with_command(f, dev, command, script, n, k) ==
    Bind(open_transport(f, dev, Some(command), script, n, k), LAMBDA t :
         IF ~t.res.ok THEN t
         ELSE Bind(read_response(f, t.cs[1].peer, k), LAMBDA r :
                   Return(r.res, Close(After(t.cs[1], r.s)))))

\* open_transport(None) followed by one stage-2 command; ctx is the context
\* the caller wraps a stage-2 error in, "" if it does not
stage2(f, dev, command, ctx, script, n, k) ==
    Bind(open_transport(f, dev, None, script, n, k), LAMBDA t :
         IF ~t.res.ok THEN t
         ELSE Bind(conn_send_cmd(f, t.cs[1], command, "stage2", n, k),
                   LAMBDA r :
                   IF r.res.ok THEN Return(Ok(<<>>), r.c)
                   ELSE Return(IF ctx # "" THEN anyhow_context(r.res, ctx)
                               ELSE r.res,
                               Close(r.c))))

\* shell_stream: "shell:" ++ cmdline, where cmdline is command.get_command()
shell_stream(f, dev, cmdline, script, n, k) ==
    stage2(f, dev, ShellStr \o cmdline,
           IF f = "blocking" THEN "Send Command >> .. and Check Okay Failed"
           ELSE "",
           script, n, k)

shell(f, dev, cmdline, script, n, k) ==
    Bind(shell_stream(f, dev, cmdline, script, n, k), LAMBDA t :
         IF ~t.res.ok THEN t
         ELSE Bind(read_until_close(t.cs[1].peer, k), LAMBDA r :
                   Return(r.res, Close(After(t.cs[1], r.s)))))

tcpip(f, dev, port, script, n, k) ==
    Bind(stage2(f, dev, TcpipStr \o FormatDec(port),
                "Send Command >> .. and Check Okay Failed", script, n, k),
         LAMBDA t :
         IF ~t.res.ok THEN t
         ELSE Bind(read_until_close(t.cs[1].peer, k), LAMBDA r :
                   Return(IF r.res.ok THEN r.res
                          ELSE anyhow_context(r.res, "Read Until Close Failed"),
                          Close(After(t.cs[1], r.s)))))

\* "forward", "norebind", ";"
ForwardStr == <<102, 111, 114, 119, 97, 114, 100>>

NorebindStr == <<110, 111, 114, 101, 98, 105, 110, 100>>

Semicolon == <<59>>

\* args.join(sep)
RECURSIVE JoinWith(_, _)
JoinWith(parts, sep) ==
    IF parts = <<>> THEN <<>>
    ELSE IF Len(parts) = 1 THEN parts[1]
    ELSE parts[1] \o sep \o JoinWith(Tail(parts), sep)

\* vec!["forward"] and the optional "norebind"
ForwardArgs(norebind) ==
    <<ForwardStr>> \o (IF norebind THEN <<NorebindStr>> ELSE <<>>)

forward(f, dev, local, remote, norebind, script, n, k) ==
    Bind(open_transport(f, dev,
                        Some(JoinWith(ForwardArgs(norebind)
                                      \o <<local \o Semicolon \o remote>>,
                                      Colon)),
                        script, n, k),
         LAMBDA t :
         IF t.res.ok THEN Return(Ok(<<>>), Close(t.cs[1]))
         ELSE [t EXCEPT !.res = from_display("Failed To Forward Port")])

reverse(f, dev, remote, local, norebind, script, n, k) ==
    Bind(open_transport(f, dev,
                        Some(JoinWith(ForwardArgs(norebind)
                                      \o <<local, Semicolon, remote>>,
                                      Colon)),
                        script, n, k),
         LAMBDA t :
         IF t.res.ok THEN Return(Ok(<<>>), Close(t.cs[1]))
         ELSE t)

\* a prepare_sync that sends the request whatever "sync:" was answered
prepare_sync_unchecked(f, dev, path, tag, script, n, k) ==
    Bind(stage2(f, dev, SyncStr,
                IF f = "blocking" THEN "Start Sync Error" ELSE "",
                script, n, k),
         LAMBDA t :
         IF t.cs = <<>> \/ Len(t.cs[1].sent) < 2 THEN t
         ELSE Return(t.res,
                     conn_send(t.cs[1], tag \o ToLE32(Len(path)) \o path,
                               "sync", n)))

\* prepare_sync: open_transport, "sync:", then tag ++ LE32(len(path)) ++ path
prepare_sync(f, dev, path, tag, script, n, k) ==
    Bind(stage2(f, dev, SyncStr,
                IF f = "blocking" THEN "Start Sync Error" ELSE "",
                script, n, k),
         LAMBDA t :
         IF ~t.res.ok THEN t
         ELSE Return(Ok(<<>>),
                     conn_send(t.cs[1], tag \o ToLE32(Len(path)) \o path,
                               "sync", n)))

\* beans::file_info::parse_file_info: slicing data[0..12] panics when the
\* one recv delivered fewer bytes
parse_file_info(data, path) ==
    IF Len(data) < 12 THEN Panic("range end index out of range")
    ELSE Ok([mode |-> LE32(Take(data, 4)),
             size |-> LE32(Take(Drop(data, 4), 4)),
             mtime |-> LE32(Take(Drop(data, 8), 4)),
             path |-> path])

stat(f, dev, path, script, n, k) ==
    Bind(prepare_sync(f, dev, path, STAT, script, n, k), LAMBDA t :
         IF ~t.res.ok THEN t
         ELSE Bind(read_string(f, t.cs[1].peer, 4, k), LAMBDA d :
                   IF ~d.res.ok THEN Return(d.res, Close(After(t.cs[1], d.s)))
                   ELSE IF d.res.val # STAT
                   THEN Return(from_display("stat error"),
                               Close(After(t.cs[1], d.s)))
                   ELSE Bind(recv(d.s, 12, k), LAMBDA e :
                             Return(IF e.res.ok
                                    THEN parse_file_info(e.res.val, path)
                                    ELSE e.res,
                                    Close(After(t.cs[1], e.s))))))

\* exists: stat, and whether the mtime it decoded is not 0
exists(f, dev, path, script, n, k) ==
    Bind(stat(f, dev, path, script, n, k), LAMBDA t :
         IF ~t.res.ok THEN t
         ELSE [t EXCEPT !.res = Ok(t.res.val.mtime # 0)])

(***************************************************************************)
(* The SYNC content stream.  One call of next() / one poll of the stream   *)
(* returns item, an Option of the item yielded (None: the iterator         *)
(* returned None), the stream s it left behind, and done, the iterator's   *)
(* own flag.  k is what the transport delivers to each read of the call.   *)
(***************************************************************************)
Step(item, s, done) == [item |-> item, s |-> s, done |-> done]

\* blocking iter_content, the closure given to std::iter::from_fn
blocking_iter_content_next(s, done, k) ==
    IF done THEN Step(None, s, TRUE)
    ELSE Bind(blocking_read_string(s, 4, k), LAMBDA t :
         IF ~t.res.ok THEN Step(None, t.s, FALSE)
         ELSE IF t.res.val = FAIL
         THEN Bind(recv(t.s, 4, k), LAMBDA z :
                   IF ~z.res.ok THEN Step(None, z.s, FALSE)
                   ELSE IF Len(z.res.val) # 4 THEN Step(None, z.s, FALSE)
                   ELSE Step(None,
                             blocking_read_string(z.s, LE32(z.res.val), k).s,
                             FALSE))
         ELSE IF t.res.val = DONE THEN Step(None, t.s, TRUE)
         ELSE IF t.res.val = DATA
         THEN Bind(recv(t.s, 4, k), LAMBDA z :
                   IF ~z.res.ok THEN Step(None, z.s, FALSE)
                   ELSE IF Len(z.res.val) # 4 THEN Step(None, z.s, FALSE)
                   ELSE Bind(blocking_read_string(z.s, LE32(z.res.val), k),
                             LAMBDA d :
                             IF d.res.ok
                             THEN Step(Some(Ok(d.res.val)), d.s, FALSE)
                             ELSE Step(None, d.s, FALSE)))
         ELSE Step(None, t.s, FALSE))

\* async iter_content, the body of stream!; done: the generator has
\* finished (every error is yielded and followed by break)
tokio_iter_content_next(s, done, k) ==
    IF done THEN Step(None, s, TRUE)
    ELSE Bind(tokio_read_string(s, 4, k), LAMBDA t :
         IF ~t.res.ok
         THEN Step(Some(anyhow_msg("Read String Error ", t.res)), t.s, TRUE)
         ELSE IF t.res.val = FAIL
         THEN Bind(recv(t.s, 4, k), LAMBDA z :
                   IF ~z.res.ok
                   THEN Step(Some(anyhow_msg("Read String Error ", z.res)),
                             z.s, TRUE)
                   ELSE IF Len(z.res.val) # 4
                   THEN Step(Some(Panic("unwrap on None")), z.s, TRUE)
                   ELSE Bind(tokio_read_string(z.s, LE32(z.res.val), k),
                             LAMBDA m :
                             IF ~m.res.ok
                             THEN Step(Some(Panic("unwrap on None")), m.s, TRUE)
                             ELSE Step(Some(anyhow_msg("Read String Error ",
                                                       m.res.val)),
                                       m.s, TRUE)))
         ELSE IF t.res.val = DONE
         THEN Step(Some(anyhow_msg("Read Done", <<>>)), t.s, TRUE)
         ELSE IF t.res.val = DATA
         THEN Bind(recv(t.s, 4, k), LAMBDA z :
                   IF ~z.res.ok
                   THEN Step(Some(anyhow_msg("Read String Error ", z.res)),
                             z.s, TRUE)
                   ELSE IF Len(z.res.val) # 4
                   THEN Step(Some(Panic("unwrap on None")), z.s, TRUE)
                   ELSE Bind(read_exact(z.s, LE32(z.res.val)), LAMBDA d :
                             IF d.res.ok
                             THEN Step(Some(Ok(d.res.val)), d.s, FALSE)
                             ELSE Step(Some(anyhow_msg("Read String Error ",
                                                       d.res)),
                                       d.s, TRUE)))
         ELSE Step(Some(anyhow_msg("Read String Error ", <<>>)), t.s, TRUE))

iter_content_next(f, s, done, k) ==
    IF f = "blocking" THEN blocking_iter_content_next(s, done, k)
    ELSE tokio_iter_content_next(s, done, k)

\* iter_content up to the stream it returns
iter_content(f, dev, path, script, n, k) ==
    Bind(prepare_sync(f, dev, path, RECV, script, n, k), LAMBDA t :
         IF f = "blocking" /\ ~t.res.ok
         THEN [t EXCEPT !.res = from_display("iter_content error")]
         ELSE t)

(***************************************************************************)
(* pull.  A file is exists, content and, for an open handle, writable:     *)
(* File::open gives a read-only handle on a file that exists, File::create *)
(* a writable handle on a new empty file.                                  *)
(***************************************************************************)
OpenDest(file) ==
    IF file.exists
    THEN [exists |-> TRUE, content |-> file.content, writable |-> FALSE]
    ELSE [exists |-> TRUE, content |-> <<>>, writable |-> TRUE]

\* what pull hands back: res, cs, dialed and file, the destination afterwards
Pulled(res, cs, dialed, file) ==
    [res |-> res, cs |-> cs, dialed |-> dialed, file |-> file]

\* for_each over the blocking content iterator, up to its first None
RECURSIVE blocking_pull_loop(_, _, _, _, _)
blocking_pull_loop(s, done, file, size, k) ==
    Bind(blocking_iter_content_next(s, done, k), LAMBDA nx :
         IF nx.item = None THEN [res |-> Ok(size), s |-> nx.s, file |-> file]
         ELSE IF ~file.writable /\ nx.item[1].val # <<>>
         THEN [res |-> Panic("write_all on a read-only handle"),
               s |-> nx.s, file |-> file]
         ELSE blocking_pull_loop(nx.s, nx.done,
                                 [file EXCEPT !.content = @ \o nx.item[1].val],
                                 size + Len(nx.item[1].val), k))

blocking_pull(dev, src, file, script, n, k) ==
    Bind(iter_content("blocking", dev, src, script, n, k), LAMBDA t :
         IF ~t.res.ok THEN Pulled(t.res, t.cs, t.dialed, OpenDest(file))
         ELSE Bind(blocking_pull_loop(t.cs[1].peer, FALSE, OpenDest(file), 0, k),
                   LAMBDA l :
                   Pulled(l.res, <<Close(After(t.cs[1], l.s))>>, 1, l.file)))

\* async pull: the mapped stream is dropped without ever being polled
tokio_pull(dev, src, file, script, n, k) ==
    Bind(iter_content("tokio_async", dev, src, script, n, k), LAMBDA t :
         IF ~t.res.ok THEN Pulled(t.res, t.cs, t.dialed, OpenDest(file))
         ELSE Pulled(Ok(0), <<Close(t.cs[1])>>, 1, OpenDest(file)))

pull(f, dev, src, file, script, n, k) ==
    IF f = "blocking" THEN blocking_pull(dev, src, file, script, n, k)
    ELSE tokio_pull(dev, src, file, script, n, k)

(***************************************************************************)
(* logcat                                                                  *)
(***************************************************************************)
\* get_command() of ["logcat", "-c"] and of ["logcat", "-v", "time"]: the
\* arguments hold no character that is escaped, and are joined by spaces
LogcatClearStr == <<108, 111, 103, 99, 97, 116, 32, 45, 99>>

LogcatTimeStr ==
    <<108, 111, 103, 99, 97, 116, 32, 45, 118, 32, 116, 105, 109, 101>>

Newline == 10

\* str::from_utf8 on the model's alphabets
is_utf8(bytes) == \A i \in 1..Len(bytes) : bytes[i] < 128

\* the length of the first line of buf, its '\n' included; 0 if none ends
FirstLine(buf) ==
    IF \E i \in 1..Len(buf) : buf[i] = Newline
    THEN CHOOSE i \in 1..Len(buf) :
             buf[i] = Newline /\ \A j \in 1..(i - 1) : buf[j] # Newline
    ELSE 0

\* BufRead::read_line into an empty String: Ok(<<>>) is Ok(0)
read_line(s) ==
    LET i == FirstLine(s.buf)
        line == IF i > 0 THEN Take(s.buf, i) ELSE s.buf
        rest == [s EXCEPT !.buf = Drop(s.buf, Len(line))]
    IN  IF i = 0 /\ s.tail = "err"
        THEN [res |-> io_error("read failed"),
              s |-> [buf |-> <<>>, tail |-> "eof"]]
        ELSE IF ~is_utf8(line)
        THEN [res |-> io_error("stream did not contain valid UTF-8"), s |-> rest]
        ELSE [res |-> Ok(line), s |-> rest]

\* LogcatIterator::next
blocking_logcat_next(s) ==
    Bind(read_line(s), LAMBDA r :
         IF r.res.ok /\ r.res.val = <<>> THEN Step(None, r.s, FALSE)
         ELSE Step(Some(r.res), r.s, FALSE))

\* async logcat, the body of stream!
tokio_logcat_next(s, done) ==
    IF done THEN Step(None, s, TRUE)
    ELSE Bind(read_line(s), LAMBDA r :
              IF r.res.ok /\ r.res.val = <<>> THEN Step(None, r.s, TRUE)
              ELSE Step(Some(r.res), r.s, ~r.res.ok))

logcat_next(f, s, done) ==
    IF f = "blocking" THEN blocking_logcat_next(s)
    ELSE tokio_logcat_next(s, done)

\* logcat(flush_exist, None) up to the iterator it returns; ss are the
\* scripts of the connections it may dial
logcat(f, dev, flush_exist, ss, n, k) ==
    IF flush_exist
    THEN Bind(shell(f, dev, LogcatClearStr, ss[1], n, k), LAMBDA c :
              IF ~c.res.ok THEN c
              ELSE Bind(shell_stream(f, dev, LogcatTimeStr, ss[2], n, k),
                        LAMBDA t :
                        [res |-> t.res, cs |-> c.cs \o t.cs,
                         dialed |-> c.dialed + t.dialed]))
    ELSE shell_stream(f, dev, LogcatTimeStr, ss[1], n, k)

(***************************************************************************)
(* The SYNC directory listing.                                             *)
(***************************************************************************)
\* blocking iter_directory, the closure given to std::iter::from_fn: every
\* word but DONE is taken for an entry; current_data[12..=15] panics when
\* the one recv delivered fewer than 16 bytes
blocking_iter_directory_next(s, k) ==
    Bind(blocking_read_string(s, 4, k), LAMBDA t :
         IF ~t.res.ok THEN Step(None, t.s, FALSE)
         ELSE IF t.res.val = DONE THEN Step(None, t.s, FALSE)
         ELSE Bind(recv(t.s, 16, k), LAMBDA e :
                   IF ~e.res.ok THEN Step(None, e.s, FALSE)
                   ELSE IF Len(e.res.val) < 16
                   THEN Step(Some(Panic("range end index out of range")),
                             e.s, FALSE)
                   ELSE Bind(blocking_read_string(
                                 e.s, LE32(Drop(e.res.val, 12)), k),
                             LAMBDA name :
                             IF ~name.res.ok THEN Step(None, name.s, FALSE)
                             ELSE Step(Some(parse_file_info(e.res.val,
                                                            name.res.val)),
                                       name.s, FALSE))))

\* async iter_directory, the body of stream!: `?` yields the error and ends
\* the stream; an entry is the pair (current_data, path)
tokio_iter_directory_next(s, done, k) ==
    IF done THEN Step(None, s, TRUE)
    ELSE Bind(tokio_read_string(s, 4, k), LAMBDA t :
         IF ~t.res.ok THEN Step(Some(t.res), t.s, TRUE)
         ELSE IF t.res.val = DONE THEN Step(None, t.s, TRUE)
         ELSE Bind(recv(t.s, 16, k), LAMBDA e :
                   IF ~e.res.ok THEN Step(Some(e.res), e.s, TRUE)
                   ELSE IF Len(e.res.val) < 16
                   THEN Step(Some(Panic("range end index out of range")),
                             e.s, TRUE)
                   ELSE Bind(tokio_read_string(
                                 e.s, LE32(Drop(e.res.val, 12)), k),
                             LAMBDA name :
                             IF ~name.res.ok
                             THEN Step(Some(name.res), name.s, TRUE)
                             ELSE Step(Some(Ok(<<e.res.val, name.res.val>>)),
                                       name.s, FALSE))))

iter_directory_next(f, s, done, k) ==
    IF f = "blocking" THEN blocking_iter_directory_next(s, k)
    ELSE tokio_iter_directory_next(s, done, k)

\* iter_directory up to the stream it returns
iter_directory(f, dev, path, script, n, k) ==
    prepare_sync(f, dev, path, LIST, script, n, k)

(***************************************************************************)
(* SpecDevice and SpecStream: AdbDevice operations against a server whose  *)
(* behaviour on each connection is fixed by Init (scripts, consumed one    *)
(* per TcpStream::connect).  call numbers the operations, outcome is the   *)
(* last result, handle is the stream or iterator an operation returned and *)
(* the caller still holds, items what it has yielded so far.               *)
(***************************************************************************)
\* what the transport delivers to a read: one byte, or all that is asked
Segs == {1, ReadChunk}

\* the path "p", the command line "a", the forward specs "l" and "r"
PathP == <<112>>

CmdA == <<97>>

LocalL == <<108>>

RemoteR == <<114>>

RawScript(up, buf, tail) ==
    [up |-> up, buf |-> buf, tail |-> tail, plan |-> [kind |-> "raw"]]

\* DATA ++ LE32(len) ++ payload for every chunk
RECURSIVE DataFrames(_)
DataFrames(chunks) ==
    IF chunks = <<>> THEN <<>>
    ELSE DATA \o ToLE32(Len(chunks[1])) \o chunks[1] \o DataFrames(Tail(chunks))

RECURSIVE Concat(_)
Concat(chunks) ==
    IF chunks = <<>> THEN <<>> ELSE chunks[1] \o Concat(Tail(chunks))

\* "abc", "de" and one byte that is not UTF-8
Payloads == {<<97, 98, 99>>, <<100, 101>>, <<255>>}

\* the SYNC error messages "no" and one with a byte that is not UTF-8
SyncMessages == {<<110, 111>>, <<255>>}

\* how a RECV session ends: DONE, FAIL ++ LE32(len) ++ message, a tag the
\* client does not know, or nothing more (the connection ends or is reset)
Terms ==
    {[tag |-> "DONE", bytes |-> DONE, tail |-> "eof"]}
    \cup {[tag |-> "FAIL", msg |-> m, bytes |-> FAIL \o ToLE32(Len(m)) \o m,
           tail |-> "eof"] : m \in SyncMessages}
    \cup {[tag |-> "QUIT", bytes |-> <<81, 85, 73, 84>>, tail |-> "eof"]}
    \cup {[tag |-> "cut", bytes |-> <<>>, tail |-> t] : t \in {"eof", "err"}}

RecvScript(chunks, term) ==
    [up |-> TRUE,
     buf |-> OKAY \o OKAY \o DataFrames(chunks) \o term.bytes,
     tail |-> term.tail,
     plan |-> [kind |-> "recv", chunks |-> chunks, term |-> term]]

\* logcat output: the lines "a\n", one that is not UTF-8, and an unfinished "b"
LogLines == {<<97, 10>>, <<255, 10>>, <<98>>}

LogcatScript(lines, tail) ==
    [up |-> TRUE, buf |-> OKAY \o OKAY \o Concat(lines), tail |-> tail,
     plan |-> [kind |-> "logcat", lines |-> lines]]

\* the server: refuses; serves a RECV of "a"; answers the prefix with a
\* framed "a"; fails the prefix; fails the stage-2 command
DeviceScripts ==
    {RawScript(FALSE, <<>>, "eof"),
     RecvScript(<<CmdA>>, [tag |-> "DONE", bytes |-> DONE, tail |-> "eof"]),
     RawScript(TRUE, OKAY \o FormatHex04(1) \o CmdA, "eof"),
     RawScript(TRUE, FAIL \o FormatHex04(1) \o CmdA, "eof"),
     RawScript(TRUE, OKAY \o FAIL \o FormatHex04(1) \o CmdA, "eof")}

\* directory entries: a file "f" (mode 0o100644, 5 bytes, mtime 1) and a
\* directory "d" (mode 0o040755, mtime 0)
Entries ==
    {[mode |-> 33188, size |-> 5, mtime |-> 1, name |-> <<102>>],
     [mode |-> 16877, size |-> 0, mtime |-> 0, name |-> <<100>>]}

\* DENT ++ mode ++ size ++ mtime ++ LE32(len(name)) ++ name for every entry
RECURSIVE DentFrames(_)
DentFrames(entries) ==
    IF entries = <<>> THEN <<>>
    ELSE DENT \o ToLE32(entries[1].mode) \o ToLE32(entries[1].size)
         \o ToLE32(entries[1].mtime) \o ToLE32(Len(entries[1].name))
         \o entries[1].name \o DentFrames(Tail(entries))

ListScript(entries) ==
    [up |-> TRUE, buf |-> OKAY \o OKAY \o DentFrames(entries) \o DONE,
     tail |-> "eof", plan |-> [kind |-> "list", entries |-> entries]]

\* STAT replies: a path that does not exist (all zero), a file of 5 bytes
\* with mtime 1, and an entry whose mtime alone is not zero
StatInfos ==
    {[mode |-> 0, size |-> 0, mtime |-> 0],
     [mode |-> 33188, size |-> 5, mtime |-> 1],
     [mode |-> 0, size |-> 0, mtime |-> 256]}

StatScript(info) ==
    [up |-> TRUE,
     buf |-> OKAY \o OKAY \o STAT \o ToLE32(info.mode) \o ToLE32(info.size)
             \o ToLE32(info.mtime),
     tail |-> "eof", plan |-> [kind |-> "stat", info |-> info]]

StreamScripts ==
    {RecvScript(c, t) : c \in SeqsUpTo(Payloads, MaxChunks), t \in Terms}
    \cup {StatScript(i) : i \in StatInfos}
    \cup {ListScript(e) : e \in SeqsUpTo(Entries, 2)}
    \cup {LogcatScript(l, t) : l \in SeqsUpTo(LogLines, 2), t \in {"eof", "err"}}

NoCall == [fn |-> "none", n |-> 0]

InitDeviceWith(devs, scriptSeqs, dests) ==
    /\ call = NoCall
    /\ outcome = NoRet
    /\ facade \in Facades
    /\ device \in devs
    /\ scripts \in scriptSeqs
    /\ fs \in dests
    /\ conns = <<>>
    /\ handle = NoHandle
    /\ client = NoHandle
    /\ IdleCodec
    /\ stream = [buf |-> <<>>, tail |-> "eof"]
    /\ sent = <<>>
    /\ IdleConnect

NoFile == [exists |-> FALSE, content |-> <<>>]

\* SpecDevice: a device with a serial or with no identifier at all, and
\* MaxOps connections to be had
InitDevice ==
    InitDeviceWith({[serial |-> Some(<<83>>), transport_id |-> None],
                    [serial |-> None, transport_id |-> None]},
                   [1..MaxOps -> DeviceScripts],
                   {NoFile})

\* SpecStream: one connection, a RECV session or logcat output on it, and a
\* destination file that exists (holding "x") or not
InitStream ==
    InitDeviceWith({[serial |-> Some(<<83>>), transport_id |-> None]},
                   {<<s>> : s \in StreamScripts},
                   {NoFile, [exists |-> TRUE, content |-> <<120>>]})

deviceFrame == <<ret, stream, sent, threads, server, facade, device, client>>

CanInvoke(dials) == call.n < MaxOps /\ Len(scripts) >= dials

\* the bookkeeping common to every operation: r is what it returned
Invoke(fn, r) ==
    /\ call' = [fn |-> fn, n |-> call.n + 1]
    /\ conns' = conns \o r.cs
    /\ scripts' = Drop(scripts, r.dialed)
    /\ outcome' = [done |-> TRUE, fn |-> fn, res |-> r.res]

\* the caller keeps the stream an operation returned
Hold(kind, r) ==
    handle' = IF r.res.ok
              THEN [kind |-> kind, conn |-> Len(conns) + Len(r.cs),
                    done |-> FALSE, items |-> <<>>, polls |-> 0,
                    dead |-> FALSE]
              ELSE handle

InvokeHold(kind, r) == Invoke(kind, r) /\ Hold(kind, r)

\* pull also leaves the destination file behind
InvokePull(r) ==
    /\ Invoke("pull", r)
    /\ fs' = [exists |-> r.file.exists, content |-> r.file.content]

GetState ==
    \E k \in Segs :
        /\ CanInvoke(1)
        /\ Invoke("get_state", get_with_command(facade, device, GetStateStr,
                                                scripts[1], call.n + 1, k))
        /\ UNCHANGED <<handle, fs, deviceFrame>>

Shell ==
    \E k \in Segs :
        /\ CanInvoke(1)
        /\ Invoke("shell", shell(facade, device, CmdA, scripts[1],
                                 call.n + 1, k))
        /\ UNCHANGED <<handle, fs, deviceFrame>>

ShellStream ==
    \E k \in Segs :
        /\ CanInvoke(1)
        /\ handle = NoHandle
        /\ InvokeHold("shell_stream",
                      shell_stream(facade, device, CmdA, scripts[1],
                                   call.n + 1, k))
        /\ UNCHANGED <<fs, deviceFrame>>

Forward ==
    \E k \in Segs, norebind \in BOOLEAN :
        /\ CanInvoke(1)
        /\ Invoke("forward", forward(facade, device, LocalL, RemoteR, norebind,
                                     scripts[1], call.n + 1, k))
        /\ UNCHANGED <<handle, fs, deviceFrame>>

Reverse ==
    \E k \in Segs, norebind \in BOOLEAN :
        /\ CanInvoke(1)
        /\ Invoke("reverse", reverse(facade, device, RemoteR, LocalL, norebind,
                                     scripts[1], call.n + 1, k))
        /\ UNCHANGED <<handle, fs, deviceFrame>>

Tcpip ==
    \E k \in Segs :
        /\ CanInvoke(1)
        /\ Invoke("tcpip", tcpip(facade, device, 5555, scripts[1],
                                 call.n + 1, k))
        /\ UNCHANGED <<handle, fs, deviceFrame>>

Stat ==
    \E k \in Segs :
        /\ CanInvoke(1)
        /\ Invoke("stat", stat(facade, device, PathP, scripts[1],
                               call.n + 1, k))
        /\ UNCHANGED <<handle, fs, deviceFrame>>

Exists ==
    \E k \in Segs :
        /\ CanInvoke(1)
        /\ Invoke("exists", exists(facade, device, PathP, scripts[1],
                                   call.n + 1, k))
        /\ UNCHANGED <<handle, fs, deviceFrame>>

IterContent ==
    \E k \in Segs :
        /\ CanInvoke(1)
        /\ handle = NoHandle
        /\ InvokeHold("iter_content",
                      iter_content(facade, device, PathP, scripts[1],
                                   call.n + 1, k))
        /\ UNCHANGED <<fs, deviceFrame>>

IterDirectory ==
    \E k \in Segs :
        /\ CanInvoke(1)
        /\ handle = NoHandle
        /\ InvokeHold("iter_directory",
                      iter_directory(facade, device, PathP, scripts[1],
                                     call.n + 1, k))
        /\ UNCHANGED <<fs, deviceFrame>>

Pull ==
    \E k \in Segs :
        /\ CanInvoke(1)
        /\ InvokePull(pull(facade, device, PathP, fs, scripts[1],
                           call.n + 1, k))
        /\ UNCHANGED <<handle, deviceFrame>>

Logcat ==
    \E k \in Segs, flush_exist \in BOOLEAN :
        /\ CanInvoke(IF flush_exist THEN 2 ELSE 1)
        /\ handle = NoHandle
        /\ InvokeHold("logcat",
                      logcat(facade, device, flush_exist, scripts,
                             call.n + 1, k))
        /\ UNCHANGED <<fs, deviceFrame>>

\* the item is a panic: the polling thread unwinds and polls no more
IsPanic(item) ==
    IF item = None THEN FALSE
    ELSE IF item[1].ok THEN FALSE
    ELSE item[1].kind = "panic"

\* the stream and the handle after a poll that returned nx
Advance(nx) ==
    /\ conns' = [conns EXCEPT ![handle.conn].peer = nx.s]
    /\ handle' = [handle EXCEPT !.done = nx.done,
                                !.items = Append(@, nx.item),
                                !.polls = @ + 1,
                                !.dead = IsPanic(nx.item)]

\* one next() on the iterator / one poll of the stream the caller holds
HandleNext ==
    \E k \in Segs :
        /\ handle.kind \in {"iter_content", "iter_directory", "logcat"}
        /\ handle.polls < MaxPolls
        /\ ~handle.dead
        /\ Advance(IF handle.kind = "iter_content"
                   THEN iter_content_next(facade, conns[handle.conn].peer,
                                          handle.done, k)
                   ELSE IF handle.kind = "iter_directory"
                   THEN iter_directory_next(facade, conns[handle.conn].peer,
                                            handle.done, k)
                   ELSE logcat_next(facade, conns[handle.conn].peer,
                                    handle.done))
        /\ UNCHANGED <<call, outcome, scripts, fs, deviceFrame>>

\* the caller drops the stream it holds: the socket closes
DropHandle ==
    /\ handle # NoHandle
    /\ conns' = [conns EXCEPT ![handle.conn] = Close(@)]
    /\ handle' = NoHandle
    /\ UNCHANGED <<call, outcome, scripts, fs, deviceFrame>>

NextDevice ==
    \/ GetState
    \/ Shell
    \/ ShellStream
    \/ Forward
    \/ Reverse
    \/ Tcpip
    \/ Stat
    \/ Exists
    \/ IterContent
    \/ IterDirectory
    \/ Pull
    \/ Logcat
    \/ HandleNext
    \/ DropHandle

SpecDevice == InitDevice /\ [][NextDevice]_vars

SpecStream == InitStream /\ [][NextDevice]_vars

(***************************************************************************)
(* C5.  For any sequence of AdbDevice operations, every connection was     *)
(* dialed by one operation, which alone writes on it: exactly one selector *)
(* prefix, first; then at most one stage-2 command; and, on a SYNC         *)
(* session, only one STAT / LIST / RECV request, after "sync:".  Every     *)
(* operation of a device that has an identifier dials its own connection,  *)
(* later operations dial later connections, and a connection that no       *)
(* returned stream holds is closed.  Checked under SpecDevice.             *)
(***************************************************************************)
Writes(c, role) == {j \in 1..Len(c.sent) : c.sent[j].role = role}

HasId == device.serial # None \/ device.transport_id # None

FreshTransportPerOperation ==
    /\ \A i \in 1..Len(conns) :
           /\ Writes(conns[i], "prefix") = {1}
           /\ Cardinality(Writes(conns[i], "stage2")) <= 1
           /\ Writes(conns[i], "stage2") \subseteq {2}
           /\ Cardinality(Writes(conns[i], "sync")) <= 1
           /\ \A j \in Writes(conns[i], "sync") :
                  j = 3 /\ conns[i].sent[2].bytes = build_command_packet(SyncStr)
           /\ \A j \in 1..Len(conns[i].sent) : conns[i].sent[j].op = conns[i].op
           /\ conns[i].op \in 1..call.n
           /\ \A h \in 1..(i - 1) : conns[h].op <= conns[i].op
           /\ conns[i].open => handle # NoHandle /\ handle.conn = i
    /\ HasId => MaxOps - Len(scripts) >= call.n
    /\ ~HasId => conns = <<>>

\* two operations have run, each on its own connection: a SYNC session that
\* carried its one request, and a later operation with its own prefix
FreshTransportPerOperationWitness ==
    /\ call.n = 2
    /\ Len(conns) = 2
    /\ conns[1].op = 1
    /\ conns[2].op = 2
    /\ Writes(conns[1], "sync") = {3}
    /\ Writes(conns[2], "prefix") = {1}
    /\ ~conns[1].open

(***************************************************************************)
(* C8.  pull, in both facades: when the server sends DATA chunks and then  *)
(* DONE, the destination file holds the concatenation of the payloads, in  *)
(* order, and the result is the total number of payload bytes.  Checked    *)
(* under SpecStream.                                                       *)
(***************************************************************************)
PullWritesPayloads ==
    (/\ call.fn = "pull"
     /\ Len(conns) = 1
     /\ conns[1].plan.kind = "recv"
     /\ conns[1].plan.term.tag = "DONE")
    => /\ outcome.res = Ok(Len(Concat(conns[1].plan.chunks)))
       /\ fs.content = Concat(conns[1].plan.chunks)

(***************************************************************************)
(* C9.  iter_content, when the server sends DATA chunks and then FAIL with *)
(* a message: the stream yields every payload as a valid item, then one    *)
(* command-failed error carrying the message verbatim, then ends.  Checked *)
(* under SpecStream, on a stream that has returned None.                   *)
(***************************************************************************)
\* the items yielded before the stream first returned None
RECURSIVE UpToNone(_)
UpToNone(items) ==
    IF items = <<>> THEN <<>>
    ELSE IF items[1] = None THEN <<>>
    ELSE <<items[1][1]>> \o UpToNone(Tail(items))

IsCommandFailed(item, m) ==
    IF item.ok THEN FALSE ELSE item.kind = "CommandFailed" /\ item.msg = m

FailMidStream ==
    (/\ handle.kind = "iter_content"
     /\ conns[handle.conn].plan.kind = "recv"
     /\ conns[handle.conn].plan.term.tag = "FAIL"
     /\ \E i \in 1..Len(handle.items) : handle.items[i] = None)
    => /\ Len(UpToNone(handle.items))
              = Len(conns[handle.conn].plan.chunks) + 1
       /\ \A i \in 1..Len(conns[handle.conn].plan.chunks) :
              UpToNone(handle.items)[i] = Ok(conns[handle.conn].plan.chunks[i])
       /\ IsCommandFailed(UpToNone(handle.items)[Len(UpToNone(handle.items))],
                          conns[handle.conn].plan.term.msg)
       /\ \A i \in 1..Len(handle.items) :
              i > Len(UpToNone(handle.items)) => handle.items[i] = None

(***************************************************************************)
(* C10.  A stream or iterator the library returned yields nothing after an *)
(* error item: every item that follows an error is None, so there is at    *)
(* most one error over its life.  Checked under SpecStream.                *)
(***************************************************************************)
IsErrorItem(item) ==
    IF item = None THEN FALSE
    ELSE IF item[1].ok THEN FALSE
    ELSE item[1].kind # "panic"

AtMostOneTrailingError ==
    handle # NoHandle
    => \A i \in 1..Len(handle.items) :
           IsErrorItem(handle.items[i])
           => \A j \in (i + 1)..Len(handle.items) : handle.items[j] = None

(***************************************************************************)
(* client::adb_client.  An AdbClient owns ONE TcpStream, dialed by new;    *)
(* every host command is sent on self.stream.  A command returns res and   *)
(* c, the client's connection afterwards.                                  *)
(***************************************************************************)
Tab == 9

CarriageReturn == 13

\* str::split(b): the pieces between the separators, at least one
RECURSIVE SplitOn(_, _)
SplitOn(text, b) ==
    IF \E i \in 1..Len(text) : text[i] = b
    THEN LET i == CHOOSE i \in 1..Len(text) :
                      text[i] = b /\ \A j \in 1..(i - 1) : text[j] # b
         IN  <<Take(text, i - 1)>> \o SplitOn(Drop(text, i), b)
    ELSE <<text>>

\* a line without the '\r' that may end it
StripCr(line) ==
    IF line # <<>> /\ line[Len(line)] = CarriageReturn
    THEN Take(line, Len(line) - 1)
    ELSE line

\* str::lines: split at '\n', the last line ending optional, "\r\n" too
lines(text) ==
    LET p == SplitOn(text, Newline)
        q == IF p[Len(p)] = <<>> THEN Take(p, Len(p) - 1) ELSE p
    IN  [i \in 1..Len(q) |-> StripCr(q[i])]

\* AdbDevice::new(parts[0], addr) for every line of the device list
parse_device_list_lines(text) ==
    Ok([i \in 1..Len(lines(text)) |->
           [serial |-> Some(SplitOn(lines(text)[i], Tab)[1]),
            transport_id |-> None]])

Replied(res, c) == [res |-> res, c |-> c]

\* send_cmd_then_check_okay(command)? followed by read_response()?
host_query(f, c, command, n, k) ==
    Bind(conn_send_cmd(f, c, command, "command", n, k), LAMBDA r :
         IF ~r.res.ok THEN r
         ELSE Bind(read_response(f, r.c.peer, k), LAMBDA d :
                   Replied(d.res, After(r.c, d.s))))

server_version(f, c, n, k) ==
    Bind(host_query(f, c, HostVersionStr, n, k), LAMBDA r :
         IF ~r.res.ok THEN r
         ELSE IF from_str_radix16(r.res.val) < 0
         THEN Replied(Err("ParseInt", "invalid digit found in string"), r.c)
         ELSE Replied(Ok(FormatDec(from_str_radix16(r.res.val))), r.c))

list_devices(f, c, n, k) ==
    Bind(host_query(f, c, HostDevicesStr, n, k), LAMBDA r :
         IF ~r.res.ok THEN r
         ELSE Replied(parse_device_list_lines(r.res.val), r.c))

connect_device(f, c, serial, n, k) ==
    host_query(f, c, HostConnectStr \o serial, n, k)

disconnect_device(f, c, serial, n, k) ==
    IF serial = <<>> THEN Replied(from_display("serial is empty"), c)
    ELSE host_query(f, c, HostDisconnectStr \o serial, n, k)

server_kill(f, c, n, k) == conn_send_cmd(f, c, HostKillStr, "command", n, k)

(***************************************************************************)
(* SpecClient: one AdbClient at a time, created by new, used for any       *)
(* sequence of host commands, dropped by its owner.                        *)
(***************************************************************************)
\* what the server answers to one command: version 0x29, the device list
\* "S\tdevice\n", a failure "a", a bare OKAY
FramedReply(status, text) == status \o FormatHex04(Len(text)) \o text

DeviceListText == <<83, 9, 100, 101, 118, 105, 99, 101, 10>>

\* two devices with an empty line between them: "S\tdevice\n\nT\toffline\n"
DeviceListGap ==
    <<83, 9, 100, 101, 118, 105, 99, 101, 10, 10,
      84, 9, 111, 102, 102, 108, 105, 110, 101, 10>>

Replies ==
    {FramedReply(OKAY, <<48, 48, 50, 57>>),
     FramedReply(OKAY, DeviceListText),
     FramedReply(OKAY, DeviceListGap),
     FramedReply(FAIL, CmdA),
     OKAY}

\* the server refuses the connection, or answers two commands on it
ClientScripts ==
    {RawScript(FALSE, <<>>, "eof")}
    \cup {RawScript(TRUE, a \o b, "eof") : a \in Replies, b \in Replies}

InitClient ==
    InitDeviceWith({[serial |-> None, transport_id |-> None]},
                   [1..2 -> ClientScripts],
                   {NoFile})

clientFrame == <<ret, stream, sent, threads, server, facade, device, handle, fs>>

\* AdbClient::new: TcpStream::connect(addr).unwrap()
NewClient ==
    /\ client = NoHandle
    /\ Len(scripts) >= 1
    /\ scripts' = Tail(scripts)
    /\ call' = [call EXCEPT !.fn = "new"]
    /\ IF scripts[1].up
       THEN /\ conns' = Append(conns, NewConn(scripts[1], call.n))
            /\ client' = [kind |-> "client", conn |-> Len(conns) + 1]
            /\ outcome' = [done |-> TRUE, fn |-> "new", res |-> Ok(<<>>)]
       ELSE /\ outcome' = [done |-> TRUE, fn |-> "new",
                           res |-> Panic("unwrap on Err")]
            /\ UNCHANGED <<conns, client>>
    /\ UNCHANGED clientFrame

\* the bookkeeping common to every host command: r is what it returned
Command(fn, r) ==
    /\ call' = [fn |-> fn, n |-> call.n + 1]
    /\ conns' = [conns EXCEPT ![client.conn] = r.c]
    /\ outcome' = [done |-> TRUE, fn |-> fn, res |-> r.res]
    /\ UNCHANGED <<scripts, client, clientFrame>>

CanCommand == client # NoHandle /\ call.n < MaxOps

ServerVersion ==
    \E k \in Segs :
        /\ CanCommand
        /\ Command("server_version",
                   server_version(facade, conns[client.conn], call.n + 1, k))

ListDevices ==
    \E k \in Segs :
        /\ CanCommand
        /\ Command("list_devices",
                   list_devices(facade, conns[client.conn], call.n + 1, k))

ConnectDevice ==
    \E k \in Segs :
        /\ CanCommand
        /\ Command("connect_device",
                   connect_device(facade, conns[client.conn], <<83>>,
                                  call.n + 1, k))

DisconnectDevice ==
    \E k \in Segs, serial \in {<<>>, <<83>>} :
        /\ CanCommand
        /\ Command("disconnect_device",
                   disconnect_device(facade, conns[client.conn], serial,
                                     call.n + 1, k))

ServerKill ==
    \E k \in Segs :
        /\ CanCommand
        /\ Command("server_kill",
                   server_kill(facade, conns[client.conn], call.n + 1, k))

\* the owner drops the AdbClient: the socket closes
DropClient ==
    /\ client # NoHandle
    /\ conns' = [conns EXCEPT ![client.conn] = Close(@)]
    /\ client' = NoHandle
    /\ UNCHANGED <<call, outcome, scripts, clientFrame>>

NextClient ==
    \/ NewClient
    \/ ServerVersion
    \/ ListDevices
    \/ ConnectDevice
    \/ DisconnectDevice
    \/ ServerKill
    \/ DropClient

SpecClient == InitClient /\ [][NextClient]_vars

(***************************************************************************)
(* C4.  For any sequence of AdbClient calls, no connection carries more    *)
(* than one host command, and once a command has returned the connection   *)
(* it used is closed.  Checked under SpecClient.                           *)
(***************************************************************************)
HostCommands ==
    {"server_version", "list_devices", "connect_device", "disconnect_device",
     "server_kill"}

OneCommandPerConnection ==
    /\ \A i \in 1..Len(conns) : Cardinality(Writes(conns[i], "command")) <= 1
    /\ \A i \in 1..Len(conns) :
           (call.fn \in HostCommands /\ Writes(conns[i], "command") # {})
           => ~conns[i].open

(***************************************************************************)
(* C11.  iter_directory, when the LIST reply is n DENT entries and then    *)
(* DONE: the iterator yields exactly n FileInfo records, in reply order,   *)
(* each with the mode, size, mtime and name of its entry, and then ends.   *)
(* Checked under SpecStream, on an iterator that has returned None or has  *)
(* panicked.                                                               *)
(***************************************************************************)
\* the FileInfo of a DENT entry
FileInfoOf(entry) ==
    Ok([mode |-> entry.mode, size |-> entry.size, mtime |-> entry.mtime,
        path |-> entry.name])

ListDecode ==
    (/\ handle.kind = "iter_directory"
     /\ conns[handle.conn].plan.kind = "list"
     /\ (handle.dead \/ \E i \in 1..Len(handle.items) : handle.items[i] = None))
    => UpToNone(handle.items)
           = [i \in 1..Len(conns[handle.conn].plan.entries) |->
                     FileInfoOf(conns[handle.conn].plan.entries[i])]


(***************************************************************************)
(* C12.  iter_directory checks the 4-byte tag of the LIST loop: when the   *)
(* reply starts with a tag that is neither DENT nor DONE, the first item   *)
(* is a protocol error, and the bytes after the tag are not decoded as an  *)
(* entry.  Checked under SpecStream, with the replies of a RECV session    *)
(* (DATA, FAIL, QUIT) sent to a LIST request.                              *)
(***************************************************************************)
\* the reply on the connection starts with a tag that is not DENT or DONE
ForeignTagFirst(c) ==
    /\ c.plan.kind = "recv"
    /\ \/ c.plan.chunks # <<>>
       \/ c.plan.term.tag \in {"FAIL", "QUIT"}

ListTagChecked ==
    (/\ handle.kind = "iter_directory"
     /\ ForeignTagFirst(conns[handle.conn])
     /\ handle.items # <<>>)
    => /\ handle.items[1] # None
       /\ IsErrorItem(handle.items[1])
       /\ handle.items[1][1].kind = "ProtocolError"


(***************************************************************************)
(* C13.  stat and exists, when the server answers the STAT request with    *)
(* STAT and the 12 bytes mode, size, mtime (little-endian u32 each): stat  *)
(* returns these three numbers, and exists returns false when mtime is 0   *)
(* and true for every other mtime.  Checked under SpecStream.              *)
(***************************************************************************)
StatDecode ==
    (/\ outcome.done
     /\ outcome.fn \in {"stat", "exists"}
     /\ conns # <<>>
     /\ conns[1].plan.kind = "stat")
    => outcome.res
           = IF outcome.fn = "stat"
             THEN Ok([mode |-> conns[1].plan.info.mode,
                      size |-> conns[1].plan.info.size,
                      mtime |-> conns[1].plan.info.mtime,
                      path |-> PathP])
             ELSE Ok(conns[1].plan.info.mtime # 0)


(***************************************************************************)
(* beans::command and the shell quoting of client::adb_device.  Strings    *)
(* are sequences of ASCII codes.                                           *)
(***************************************************************************)
MaxArgs == 2

DoubleQuote == <<34>>

\* the characters shell_escape_arg tests for:  space " ' \ tab newline CR
CommandSpecial == {32, 34, 39, 92, 9, 10, 13}

\* the characters escape_shell_arg tests for:  " \"'\\$`(){}[]|&;<>?*~"
DeviceSpecial ==
    {32, 34, 39, 92, 36, 96, 40, 41, 123, 125, 91, 93, 124, 38, 59, 60, 62,
     63, 42, 126}

\* the loop over arg.chars(): a backslash before every character of marked
RECURSIVE EscapeChars(_, _)
EscapeChars(arg, marked) ==
    IF arg = <<>> THEN <<>>
    ELSE (IF arg[1] \in marked THEN <<92, arg[1]>> ELSE <<arg[1]>>)
         \o EscapeChars(Tail(arg), marked)

\* beans::command::shell_escape_arg
shell_escape_arg(arg) ==
    IF arg = <<>> THEN DoubleQuote \o DoubleQuote
    ELSE IF ~\E i \in 1..Len(arg) : arg[i] \in CommandSpecial THEN arg
    ELSE DoubleQuote \o EscapeChars(arg, {34, 92}) \o DoubleQuote

\* client::adb_device::escape_shell_arg
escape_shell_arg(arg) ==
    IF arg = <<>> THEN DoubleQuote \o DoubleQuote
    ELSE IF ~\E i \in 1..Len(arg) : arg[i] \in DeviceSpecial THEN arg
    ELSE DoubleQuote \o EscapeChars(arg, {34, 92, 36, 96}) \o DoubleQuote

shell_escape_args(args) ==
    JoinWith([i \in 1..Len(args) |-> shell_escape_arg(args[i])], <<32>>)

\* AdbCommand::get_command
get_command(cmd) ==
    IF cmd.kind = "Single" THEN cmd.s ELSE shell_escape_args(cmd.parts)

\* AdbDevice::list2cmdline
list2cmdline(args) ==
    JoinWith([i \in 1..Len(args) |-> escape_shell_arg(args[i])], <<32>>)

(***************************************************************************)
(* SpecEscape: one call of get_command or list2cmdline on an argument      *)
(* vector drawn from EscapeArgs.                                           *)
(***************************************************************************)
\* "", a, "a b", a"b, \, $a, a<tab>b, *, `a`, a'b
EscapeArgs ==
    {<<>>, <<97>>, <<97, 32, 98>>, <<97, 34, 98>>, <<92>>, <<36, 97>>,
     <<97, 9, 98>>, <<42>>, <<96, 97, 96>>, <<97, 39, 98>>}

EscapeCalls ==
    {[fn |-> "get_command", cmd |-> [kind |-> "Single", s |-> s]] :
        s \in EscapeArgs}
    \cup {[fn |-> "get_command", cmd |-> [kind |-> "Multiple", parts |-> a]] :
             a \in SeqsUpTo(EscapeArgs, MaxArgs)}
    \cup {[fn |-> "list2cmdline", args |-> a] :
             a \in SeqsUpTo(EscapeArgs, MaxArgs)}

InitEscape ==
    /\ call \in EscapeCalls
    /\ ret = NoRet
    /\ IdleProto
    /\ IdleConnect
    /\ IdleDevice

GetCommand ==
    /\ call.fn = "get_command"
    /\ ret = NoRet
    /\ ret' = [done |-> TRUE, text |-> get_command(call.cmd)]
    /\ UNCHANGED <<call, protoVars, connectVars, deviceVars>>

List2Cmdline ==
    /\ call.fn = "list2cmdline"
    /\ ret = NoRet
    /\ ret' = [done |-> TRUE, text |-> list2cmdline(call.args)]
    /\ UNCHANGED <<call, protoVars, connectVars, deviceVars>>

NextEscape == GetCommand \/ List2Cmdline

SpecEscape == InitEscape /\ [][NextEscape]_vars

(***************************************************************************)
(* C14.  AdbCommand::Single(s).get_command() is s; Multiple(args) gives    *)
(* the elements joined by one space, each escaped by the rule: "" becomes  *)
(* two double quotes; an element with none of space, tab, newline, CR,     *)
(* " ' \ $ ` ( ) { } [ ] | & ; < > ? * ~ stays as it is; any other is put  *)
(* in double quotes with a backslash before each " \ $ and `.              *)
(***************************************************************************)
\* the characters the rule names
RuleSpecial ==
    {32, 9, 10, 13, 34, 39, 92, 36, 96, 40, 41, 123, 125, 91, 93, 124, 38,
     59, 60, 62, 63, 42, 126}

RuleEscape(arg) ==
    IF arg = <<>> THEN <<34, 34>>
    ELSE IF \A i \in 1..Len(arg) : arg[i] \notin RuleSpecial THEN arg
    ELSE <<34>> \o EscapeChars(arg, {34, 92, 36, 96}) \o <<34>>

EscapeRule ==
    (ret.done /\ call.fn = "get_command")
    => ret.text
           = IF call.cmd.kind = "Single" THEN call.cmd.s
             ELSE JoinWith([i \in 1..Len(call.cmd.parts) |->
                                RuleEscape(call.cmd.parts[i])], <<32>>)


(***************************************************************************)
(* C15.  Splitting the output of get_command (for Multiple) and of         *)
(* list2cmdline with a POSIX-shell tokenizer gives the argument vector     *)
(* back: no argument is split, merged, expanded or altered.                *)
(*                                                                         *)
(* The tokenizer follows the shell's quoting rules (POSIX XCU 2.2, 2.6):   *)
(* blanks separate words; ' quotes everything up to the next '; inside "   *)
(* a backslash quotes only $ ` " \ and newline; outside quotes it quotes   *)
(* the next character.  exact is FALSE when the shell does more than       *)
(* split: a parameter or command substitution, a pattern, an operator or   *)
(* an unfinished quote.                                                    *)
(***************************************************************************)
Blanks == {32, 9, 10}

\* what may follow $ to start an expansion: a letter, digit, _ { or (
StartsExpansion(text) ==
    /\ Len(text) >= 2
    /\ text[2] \in (48..57) \cup (65..90) \cup (97..122) \cup {95, 123, 40}

\* pattern characters and operators, active outside quotes
Unquotable == {42, 63, 91, 59, 38, 124, 60, 62, 40, 41}

Inexact == [exact |-> FALSE, words |-> <<>>]

RECURSIVE Tokenize(_, _, _, _, _)
Tokenize(text, mode, cur, inword, words) ==
    IF text = <<>>
    THEN IF mode # "plain" THEN Inexact
         ELSE [exact |-> TRUE,
               words |-> IF inword THEN Append(words, cur) ELSE words]
    ELSE IF mode = "single"
    THEN IF text[1] = 39 THEN Tokenize(Tail(text), "plain", cur, TRUE, words)
         ELSE Tokenize(Tail(text), mode, Append(cur, text[1]), TRUE, words)
    ELSE IF text[1] = 96 \/ (text[1] = 36 /\ StartsExpansion(text))
    THEN Inexact
    ELSE IF mode = "double"
    THEN IF text[1] = 34 THEN Tokenize(Tail(text), "plain", cur, TRUE, words)
         ELSE IF text[1] = 92 /\ Len(text) >= 2
                 /\ text[2] \in {36, 96, 34, 92}
         THEN Tokenize(Drop(text, 2), mode, Append(cur, text[2]), TRUE, words)
         ELSE IF text[1] = 92 /\ Len(text) >= 2 /\ text[2] = 10
         THEN Tokenize(Drop(text, 2), mode, cur, TRUE, words)
         ELSE Tokenize(Tail(text), mode, Append(cur, text[1]), TRUE, words)
    ELSE IF text[1] \in Blanks
    THEN Tokenize(Tail(text), mode, <<>>, FALSE,
                  IF inword THEN Append(words, cur) ELSE words)
    ELSE IF text[1] = 34 THEN Tokenize(Tail(text), "double", cur, TRUE, words)
    ELSE IF text[1] = 39 THEN Tokenize(Tail(text), "single", cur, TRUE, words)
    ELSE IF text[1] = 92
    THEN IF Len(text) < 2 THEN Inexact
         ELSE Tokenize(Drop(text, 2), mode, Append(cur, text[2]), TRUE, words)
    ELSE IF text[1] \in Unquotable THEN Inexact
    ELSE Tokenize(Tail(text), mode, Append(cur, text[1]), TRUE, words)

ShellSplit(text) == Tokenize(text, "plain", <<>>, FALSE, <<>>)

ShellRoundTrip ==
    /\ (ret.done /\ call.fn = "get_command" /\ call.cmd.kind = "Multiple")
       => ShellSplit(ret.text) = [exact |-> TRUE, words |-> call.cmd.parts]
    /\ (ret.done /\ call.fn = "list2cmdline")
       => ShellSplit(ret.text) = [exact |-> TRUE, words |-> call.args]


(***************************************************************************)
(* client::adb_device: forward_list and forward_remote_port.  An           *)
(* operation that may dial twice takes the scripts of both connections.    *)
(***************************************************************************)
\* "tcp:"
TcpStr == <<116, 99, 112, 58>>

\* char::is_whitespace on the ASCII range
Whitespace == {32, 9, 10, 11, 12, 13}

\* str::split_whitespace: the maximal runs of characters that are not
\* whitespace; cur is the run being read
RECURSIVE split_whitespace_from(_, _)
split_whitespace_from(text, cur) ==
    IF text = <<>> THEN (IF cur = <<>> THEN <<>> ELSE <<cur>>)
    ELSE IF text[1] \in Whitespace
    THEN (IF cur = <<>> THEN <<>> ELSE <<cur>>)
         \o split_whitespace_from(Tail(text), <<>>)
    ELSE split_whitespace_from(Tail(text), Append(cur, text[1]))

split_whitespace(text) == split_whitespace_from(text, <<>>)

\* the ForwardItems of the lines from index i on: a line of fewer than
\* three words (a blank line has none) is skipped
RECURSIVE forward_items_from(_, _)
forward_items_from(ls, i) ==
    IF i > Len(ls) THEN <<>>
    ELSE (IF Len(split_whitespace(ls[i])) >= 3
          THEN <<[serial |-> split_whitespace(ls[i])[1],
                  local |-> split_whitespace(ls[i])[2],
                  remote |-> split_whitespace(ls[i])[3]]>>
          ELSE <<>>)
         \o forward_items_from(ls, i + 1)

extract_forward_item_from_output(output) ==
    Ok(forward_items_from(lines(output), 1))

\* the value of a string of decimal digits
RECURSIVE DecNumber(_)
DecNumber(ds) ==
    IF ds = <<>> THEN 0
    ELSE DecNumber(SubSeq(ds, 1, Len(ds) - 1)) * 10 + (ds[Len(ds)] - 48)

\* str::parse::<u16>: an optional '+', then one to five digits that make a
\* number up to 65535 (longer strings are not in the model); None otherwise
parse_u16(s) ==
    Bind(IF s # <<>> /\ s[1] = 43 THEN Drop(s, 1) ELSE s, LAMBDA digits :
         IF digits = <<>> \/ Len(digits) > 5 THEN None
         ELSE IF \E i \in 1..Len(digits) : digits[i] \notin 48..57 THEN None
         ELSE IF DecNumber(digits) > 65535 THEN None
         ELSE Some(DecNumber(digits)))

extract_port_from_tcp_spec(tcp_spec) ==
    IF Take(tcp_spec, 4) = TcpStr THEN parse_u16(Drop(tcp_spec, 4)) ELSE None

forward_list(f, dev, script, n, k) ==
    Bind(open_transport(f, dev, Some(ListForwardStr), script, n, k), LAMBDA t :
         IF ~t.res.ok THEN t
         ELSE Bind(read_response(f, t.cs[1].peer, k), LAMBDA r :
                   Return(IF r.res.ok
                          THEN extract_forward_item_from_output(r.res.val)
                          ELSE r.res,
                          Close(After(t.cs[1], r.s)))))

\* the loop over existing_forwards: the port of the first item of this
\* device's serial and of this remote whose local spec holds a port
RECURSIVE existing_forward(_, _, _, _)
existing_forward(items, i, dev, remote) ==
    IF i > Len(items) THEN None
    ELSE IF /\ dev.serial # None
            /\ items[i].serial = dev.serial[1]
            /\ items[i].remote = remote
            /\ extract_port_from_tcp_spec(items[i].local) # None
    THEN extract_port_from_tcp_spec(items[i].local)
    ELSE existing_forward(items, i + 1, dev, remote)

\* the second half of forward_remote_port: get_free_port gave local_port
create_forward(f, dev, remote, local_port, listed, script, n, k) ==
    Bind(forward(f, dev, TcpStr \o FormatDec(local_port), remote, FALSE,
                 script, n, k),
         LAMBDA w :
         [res |-> IF w.res.ok THEN Ok(local_port)
                  ELSE anyhow_context(w.res, "Failed to create port forward"),
          cs |-> listed.cs \o w.cs,
          dialed |-> listed.dialed + w.dialed])

\* the script of the connection dialed after `dialed` others
NextScript(ss, dialed) ==
    IF dialed < Len(ss) THEN ss[dialed + 1] ELSE RawScript(FALSE, <<>>, "eof")

\* forward_remote_port without the lookup: a new forward every time
forward_remote_port_always_new(f, dev, remote_port, local_port, ss, n, k) ==
    Bind(forward_list(f, dev, ss[1], n, k), LAMBDA l :
         create_forward(f, dev, TcpStr \o FormatDec(remote_port),
                        local_port, l, NextScript(ss, l.dialed), n, k))

forward_remote_port(f, dev, remote_port, local_port, ss, n, k) ==
    Bind(forward_list(f, dev, ss[1], n, k), LAMBDA l :
         IF l.res.ok
            /\ existing_forward(l.res.val, 1, dev,
                                TcpStr \o FormatDec(remote_port)) # None
         THEN [l EXCEPT !.res = Ok(existing_forward(
                                       l.res.val, 1, dev,
                                       TcpStr \o FormatDec(remote_port))[1])]
         ELSE create_forward(f, dev, TcpStr \o FormatDec(remote_port),
                             local_port, l, NextScript(ss, l.dialed), n, k))


\* str::trim: the string without its leading and its trailing whitespace
RECURSIVE trim_start(_)
trim_start(s) ==
    IF s # <<>> /\ s[1] \in Whitespace THEN trim_start(Tail(s)) ELSE s

RECURSIVE trim_end(_)
trim_end(s) ==
    IF s # <<>> /\ s[Len(s)] \in Whitespace
    THEN trim_end(SubSeq(s, 1, Len(s) - 1))
    ELSE s

trim(s) == trim_end(trim_start(s))

\* shell_trim: the output of the shell command, trimmed
shell_trim(f, dev, cmdline, script, n, k) ==
    Bind(shell(f, dev, cmdline, script, n, k), LAMBDA r :
         IF r.res.ok THEN [r EXCEPT !.res = Ok(trim(r.res.val))] ELSE r)

(***************************************************************************)
(* SpecFacades: one operation, one device, one server behaviour (the       *)
(* scripts of the connections it may dial and k, what the transport        *)
(* delivers to a read), run once through each facade.  ret[f] is what the  *)
(* operation returned in facade f: res, and cs, the connections it dialed  *)
(* with everything it wrote to them.                                       *)
(***************************************************************************)
\* list-forward replies: nothing; this device's forward of the remote port
\* 9000; another device's; this device's forward of another remote port;
\* this device's forward of 9000 from a local spec that is no TCP port,
\* followed by one from a TCP port
ForwardLists ==
    {<<>>,
     <<83, 32>> \o TcpStr \o FormatDec(41000) \o <<32>> \o TcpStr
         \o FormatDec(9000) \o <<10>>,
     <<84, 32>> \o TcpStr \o FormatDec(41000) \o <<32>> \o TcpStr
         \o FormatDec(9000) \o <<10>>,
     <<83, 32>> \o TcpStr \o FormatDec(41000) \o <<32>> \o TcpStr
         \o FormatDec(9001) \o <<10>>,
     <<83, 32, 120, 32>> \o TcpStr \o FormatDec(9000) \o <<10>>
         \o <<83, 32>> \o TcpStr \o FormatDec(41000) \o <<32>> \o TcpStr
         \o FormatDec(9000) \o <<10>>}

ForwardListScript(text) ==
    [up |-> TRUE, buf |-> OKAY \o FormatHex04(Len(text)) \o text,
     tail |-> "eof", plan |-> [kind |-> "forward_list", text |-> text]]

\* a shell output with whitespace on both sides and inside: "\n a b \n"
PaddedOutput == <<10, 32, 97, 32, 98, 32, 10>>

\* the script s behind a socket that takes one byte in one write
Narrow(s) ==
    [up |-> s.up, buf |-> s.buf, tail |-> s.tail, plan |-> s.plan,
     window |-> 1]

\* the first connection of an operation
FirstScripts ==
    DeviceScripts
    \cup {ForwardListScript(t) : t \in ForwardLists}
    \cup {RecvScript(<<<<97, 98, 99>>>>, t) : t \in Terms}
    \cup {StatScript(i) : i \in StatInfos}
    \cup {ListScript(e) : e \in SeqsUpTo(Entries, 1)}
    \cup {LogcatScript(<<<<97, 10>>>>, "eof")}
    \cup {RawScript(TRUE, OKAY \o OKAY \o PaddedOutput, "eof")}
    \cup {Narrow(RecvScript(<<<<97, 98, 99>>>>,
                            [tag |-> "DONE", bytes |-> DONE, tail |-> "eof"])),
          Narrow(ListScript(<<>>))}
    \cup {Narrow(StatScript(i)) : i \in StatInfos}

\* the second one: the server accepts the command, or fails it
SecondScripts ==
    {RawScript(TRUE, OKAY \o OKAY, "eof"),
     RawScript(TRUE, FAIL \o FormatHex04(1) \o CmdA, "eof")}

FacadeOps ==
    {"get_state", "shell", "shell_stream", "forward", "reverse", "tcpip",
     "stat", "exists", "iter_content", "iter_directory", "pull", "logcat",
     "forward_list", "forward_remote_port", "shell_trim"}

\* remote and free are the argument of forward_remote_port and the port
\* get_free_port comes up with
FacadeCalls ==
    {[fn |-> fn, dev |-> d, ss |-> <<s1, s2>>, k |-> k, remote |-> 9000,
      free |-> 40000] :
        fn \in FacadeOps,
        d \in {[serial |-> Some(<<83>>), transport_id |-> None],
               [serial |-> None, transport_id |-> None],
               [serial |-> Some(<<83>>), transport_id |-> Some(1)]},
        s1 \in FirstScripts, s2 \in SecondScripts, k \in Segs}

\* the device of the call is addressed by its serial
BySerial == call.dev.serial # None /\ call.dev.transport_id = None

\* the operation c.fn in facade f
Operate(f, c) ==
    CASE c.fn = "get_state" ->
             get_with_command(f, c.dev, GetStateStr, c.ss[1], 1, c.k)
      [] c.fn = "shell" -> shell(f, c.dev, CmdA, c.ss[1], 1, c.k)
      [] c.fn = "shell_trim" -> shell_trim(f, c.dev, CmdA, c.ss[1], 1, c.k)
      [] c.fn = "shell_stream" -> shell_stream(f, c.dev, CmdA, c.ss[1], 1, c.k)
      [] c.fn = "forward" ->
             forward(f, c.dev, LocalL, RemoteR, FALSE, c.ss[1], 1, c.k)
      [] c.fn = "reverse" ->
             reverse(f, c.dev, RemoteR, LocalL, FALSE, c.ss[1], 1, c.k)
      [] c.fn = "tcpip" -> tcpip(f, c.dev, 5555, c.ss[1], 1, c.k)
      [] c.fn = "stat" -> stat(f, c.dev, PathP, c.ss[1], 1, c.k)
      [] c.fn = "exists" -> exists(f, c.dev, PathP, c.ss[1], 1, c.k)
      [] c.fn = "iter_content" ->
             iter_content(f, c.dev, PathP, c.ss[1], 1, c.k)
      [] c.fn = "iter_directory" ->
             iter_directory(f, c.dev, PathP, c.ss[1], 1, c.k)
      [] c.fn = "pull" -> pull(f, c.dev, PathP, NoFile, c.ss[1], 1, c.k)
      [] c.fn = "logcat" -> logcat(f, c.dev, TRUE, c.ss, 1, c.k)
      [] c.fn = "forward_list" -> forward_list(f, c.dev, c.ss[1], 1, c.k)
      [] c.fn = "forward_remote_port" ->
             forward_remote_port(f, c.dev, c.remote, c.free, c.ss, 1, c.k)

InitFacades ==
    /\ call \in FacadeCalls
    /\ ret = [f \in Facades |-> None]
    /\ IdleProto
    /\ IdleConnect
    /\ IdleDevice

RunBlocking ==
    /\ ret["blocking"] = None
    /\ ret' = [ret EXCEPT !["blocking"] = Some(Operate("blocking", call))]
    /\ UNCHANGED <<call, protoVars, connectVars, deviceVars>>

RunAsync ==
    /\ ret["tokio_async"] = None
    /\ ret' = [ret EXCEPT !["tokio_async"] = Some(Operate("tokio_async", call))]
    /\ UNCHANGED <<call, protoVars, connectVars, deviceVars>>

NextFacades == RunBlocking \/ RunAsync

SpecFacades == InitFacades /\ [][NextFacades]_vars

(***************************************************************************)
(* C16.  For the same operation, the same arguments and the same server    *)
(* replies, both facades write the same bytes: the same number of          *)
(* connections and, on each, the same frames in the same order.            *)
(***************************************************************************)
\* what an operation wrote: for every connection, the byte strings in order
Wire(r) ==
    [i \in 1..Len(r.cs) |->
        [j \in 1..Len(r.cs[i].sent) |-> r.cs[i].sent[j].bytes]]

BothRan == ret["blocking"] # None /\ ret["tokio_async"] # None

SameWireTraffic ==
    BothRan => Wire(ret["blocking"][1]) = Wire(ret["tokio_async"][1])


(***************************************************************************)
(* C17.  For every operation and every server byte stream both facades     *)
(* produce the same outcome: the same value, or an error of the same kind  *)
(* with the same message.  Checked under SpecFacades on what the           *)
(* operation returns.                                                      *)
(***************************************************************************)
SameOutcome ==
    BothRan => ret["blocking"][1].res = ret["tokio_async"][1].res


(***************************************************************************)
(* C18.  list_devices returns one device record for every non-empty line   *)
(* of the host:devices reply, in the order of the reply, and the record    *)
(* carries the serial and the state of its line, the two fields a tab      *)
(* separates; an empty line gives no record.  Checked under SpecClient on  *)
(* every list_devices call that succeeds: the reply is what the call took  *)
(* from the connection, its status and length prefix left out.             *)
(***************************************************************************)
NonEmptyLines(text) == SelectSeq(lines(text), LAMBDA l : l # <<>>)

\* the second field of a line, empty if the line has no tab
StateField(line) ==
    IF Len(SplitOn(line, Tab)) >= 2 THEN SplitOn(line, Tab)[2] ELSE <<>>

DeviceRecords(text) ==
    [i \in 1..Len(NonEmptyLines(text)) |->
        [serial |-> SplitOn(NonEmptyLines(text)[i], Tab)[1],
         state |-> StateField(NonEmptyLines(text)[i])]]

\* what the step took from the client's connection
Taken ==
    Take(conns[client.conn].peer.buf,
         Len(conns[client.conn].peer.buf)
             - Len(conns'[client.conn].peer.buf))

CarriesLine(dev, rec) ==
    /\ dev.serial = Some(rec.serial)
    /\ "state" \in DOMAIN dev
    /\ dev.state = rec.state

ListDevicesRecords ==
    [][(/\ client # NoHandle
        /\ call'.fn = "list_devices"
        /\ call'.n = call.n + 1
        /\ outcome'.res.ok)
       => /\ Len(outcome'.res.val) = Len(DeviceRecords(Drop(Taken, 8)))
          /\ \A i \in 1..Len(outcome'.res.val) :
                 CarriesLine(outcome'.res.val[i],
                             DeviceRecords(Drop(Taken, 8))[i])]_vars



(***************************************************************************)
(* C19.  forward_remote_port(r) on a device of serial S: if what           *)
(* forward_list returns holds an entry (S, tcp:L, tcp:r), the call returns *)
(* the L of such an entry and writes no forward command; otherwise it      *)
(* writes exactly one forward command, tcp:p to tcp:r without norebind,    *)
(* p the free port it was given, and returns p if it returns a value,      *)
(* which it does when the server accepts the command and no read is cut    *)
(* short.  Checked under SpecFacades in both facades.                      *)
(***************************************************************************)
\* the entries forward_list returns to facade f in this call
ListedForwards(f) ==
    LET l == forward_list(f, call.dev, call.ss[1], 1, call.k)
    IN  IF l.res.ok THEN l.res.val ELSE <<>>

\* the entries (S, tcp:<L>, tcp:<r>) among them
ReusableForwards(f) ==
    {i \in 1..Len(ListedForwards(f)) :
        /\ ListedForwards(f)[i].serial = call.dev.serial[1]
        /\ ListedForwards(f)[i].remote = TcpStr \o FormatDec(call.remote)
        /\ extract_port_from_tcp_spec(ListedForwards(f)[i].local) # None}

\* the frame of forward(tcp:<p>, tcp:<r>, norebind = false) for serial S
ForwardFrame(serial, p, r) ==
    LET cmd == HostSerialStr \o serial \o Colon \o ForwardStr \o Colon
                   \o TcpStr \o FormatDec(p) \o Semicolon
                   \o TcpStr \o FormatDec(r)
    IN  FormatHex04(Len(cmd)) \o cmd

HasForwardCommand(bytes) ==
    \E i \in 1..(Len(bytes) - Len(ForwardStr) - 1) :
        SubSeq(bytes, i, i + Len(ForwardStr) + 1)
            = Colon \o ForwardStr \o Colon

\* the forward commands r wrote, connection after connection
RECURSIVE ForwardCommandsFrom(_, _)
ForwardCommandsFrom(wire, i) ==
    IF i > Len(wire) THEN <<>>
    ELSE SelectSeq(wire[i], HasForwardCommand)
             \o ForwardCommandsFrom(wire, i + 1)

ForwardCommands(r) == ForwardCommandsFrom(Wire(r), 1)

ForwardAccepted ==
    call.ss[2].buf = OKAY \o OKAY /\ call.k = ReadChunk

ReusesListedForward(f) ==
    LET r == ret[f][1]
    IN  IF ReusableForwards(f) # {}
        THEN /\ r.res.ok
             /\ \E i \in ReusableForwards(f) :
                    ListedForwards(f)[i].local = TcpStr \o FormatDec(r.res.val)
             /\ ForwardCommands(r) = <<>>
        ELSE /\ ForwardCommands(r)
                    = <<ForwardFrame(call.dev.serial[1], call.free,
                                     call.remote)>>
             /\ (r.res.ok => r.res.val = call.free)
             /\ (ForwardAccepted => r.res.ok)

ShellServed(f) ==
    /\ ret[f] # None
    /\ call.fn = "shell"
    /\ BySerial
    /\ call.ss[1].up
    /\ Take(call.ss[1].buf, 8) = OKAY \o OKAY
    /\ call.ss[1].tail = "eof"

ShellOutput == Drop(call.ss[1].buf, 8)

ShellFrame == FormatHex04(Len(ShellStr \o CmdA)) \o ShellStr \o CmdA

ShellReadsUntilClose ==
    \A f \in Facades :
        ShellServed(f)
        => /\ Wire(ret[f][1])
                  = <<<<FormatHex04(Len(HostTransportStr \o call.dev.serial[1]))
                            \o HostTransportStr \o call.dev.serial[1],
                        ShellFrame>>>>
           /\ ret[f][1].res = Ok(ShellOutput)
           /\ ret[f][1].cs[1].peer.buf = <<>>



(***************************************************************************)
(* errors::AdbError: the classification of an error by its variant         *)
(***************************************************************************)
is_retryable_parse(e) ==
    e.kind \in {"ConnectionFailed", "NetworkError", "Timeout", "Io", "ParseError"}

is_retryable(e) ==
    e.kind \in {"ConnectionFailed", "NetworkError", "Timeout", "Io"}

is_fatal(e) == e.kind \in {"DeviceNotFound", "PermissionDenied", "ParseError"}

(***************************************************************************)
(* C21.  An error the caller gets because the server answered a command    *)
(* with FAIL is not retryable: is_retryable() is false for it, in the      *)
(* blocking and in the async facade.  Checked under SpecClient on every    *)
(* host command whose reply, the bytes the call took from the connection,  *)
(* starts with FAIL.                                                       *)
(***************************************************************************)
AnsweredFail ==
    /\ client # NoHandle
    /\ call'.n = call.n + 1
    /\ Take(Taken, 4) = FAIL
    /\ ~outcome'.res.ok

FailNotRetryable == [][AnsweredFail => ~is_retryable(outcome'.res)]_vars



(***************************************************************************)
(* SpecSilent: a server that accepts the connection, sends the beginning   *)
(* of its reply and then neither sends more nor closes.  One operation is  *)
(* run against it through each facade: ret[f] is what it returned, or      *)
(* Blocked if a read of it never returns.  For comparison,                 *)
(* a socket dialed by AdbSocketConfig::safe_connect is read once.          *)
(***************************************************************************)
DEFAULT_ADB_TIMEOUT == 3

\* every beginning of the replies OKAY 0001 "a" and OKAY OKAY "abc"
SilentScripts ==
    {[up |-> TRUE, buf |-> Take(b, i), tail |-> "silent",
      plan |-> [kind |-> "raw"]] :
        b \in {OKAY \o FormatHex04(1) \o CmdA,
               OKAY \o OKAY \o <<97, 98, 99>>},
        i \in 0..11}

SilentOps == {"server_version", "get_state", "shell", "forward"}

SilentCalls ==
    {[fn |-> fn, dev |-> [serial |-> Some(<<83>>), transport_id |-> None],
      script |-> s, k |-> k] :
        fn \in SilentOps, s \in SilentScripts, k \in Segs}

\* AdbClient::new(addr) followed by server_version()
new_then_server_version(f, script, k) ==
    Bind(server_version(f, NewConn(script, 1), 1, k), LAMBDA r :
         Return(r.res, r.c))

OperateSilent(f, c) ==
    CASE c.fn = "server_version" -> new_then_server_version(f, c.script, c.k)
      [] c.fn = "get_state" ->
             get_with_command(f, c.dev, GetStateStr, c.script, 1, c.k)
      [] c.fn = "shell" -> shell(f, c.dev, CmdA, c.script, 1, c.k)
      [] c.fn = "forward" ->
             forward(f, c.dev, LocalL, RemoteR, FALSE, c.script, 1, c.k)

\* AdbSocketConfig::safe_connect: set_read_timeout(Some(timeout)) on the
\* stream it dialed
safe_connect(script, timeout) ==
    [buf |-> script.buf, tail |-> script.tail, read_timeout |-> Some(timeout)]

InitSilent ==
    /\ call \in SilentCalls
    /\ ret = [f \in Facades |-> None]
    /\ IdleProto
    /\ IdleConnect
    /\ IdleDevice

SilentBlocking ==
    /\ ret["blocking"] = None
    /\ ret' = [ret EXCEPT !["blocking"] = Some(OperateSilent("blocking", call))]
    /\ UNCHANGED <<call, protoVars, connectVars, deviceVars>>

SilentAsync ==
    /\ ret["tokio_async"] = None
    /\ ret' = [ret EXCEPT
                 !["tokio_async"] = Some(OperateSilent("tokio_async", call))]
    /\ UNCHANGED <<call, protoVars, connectVars, deviceVars>>

\* safe_connect() and one recv(4) on the stream it returns
SafeConnectRecv ==
    /\ outcome = NoRet
    /\ outcome' = [done |-> TRUE, fn |-> "safe_connect",
                   res |-> recv(safe_connect(call.script, DEFAULT_ADB_TIMEOUT),
                                4, call.k).res]
    /\ UNCHANGED <<call, ret, facade, stream, sent, connectVars, deviceVars>>

NextSilent == SilentBlocking \/ SilentAsync \/ SafeConnectRecv

SpecSilent == InitSilent /\ [][NextSilent]_vars

(***************************************************************************)
(* C22.  Every TCP connection the library opens, in AdbClient::new and in  *)
(* AdbDevice::open_transport, has a read timeout, so that an operation     *)
(* whose server stops sending ends with an error and no read of it blocks  *)
(* for ever.  Checked under SpecSilent in both facades.                    *)
(***************************************************************************)
\* the error e, or the error it wraps, is a read that never returned
RECURSIVE Blocks(_)
Blocks(e) ==
    /\ ~e.ok
    /\ \/ e.kind = "blocked"
       \/ "cause" \in DOMAIN e /\ Blocks(e.cause)

ReadsTimeOut ==
    \A f \in Facades :
        ret[f] # None
        => /\ \A i \in 1..Len(ret[f][1].cs) :
                  read_timeout(ret[f][1].cs[i].peer) # None
           /\ ~Blocks(ret[f][1].res)



(***************************************************************************)
(* C23.  An operation owns its connection from the dial to the end: once a *)
(* buffered operation has returned, and once the stream an operation       *)
(* returned has been dropped, before or after its last item, the           *)
(* connection is closed.  The only connection that may be open is the one  *)
(* of the stream the caller holds at the moment.  Checked under SpecDevice *)
(* for every sequence of operations, polls and drops.                      *)
(***************************************************************************)
OpenConns == {i \in 1..Len(conns) : conns[i].open}

ConnectionClosedWithOperation ==
    IF handle = NoHandle THEN OpenConns = {}
    ELSE OpenConns \subseteq {handle.conn}

\* a returned stream was dropped with server bytes still unread, a buffered
\* operation ran before it, and both connections are closed
ConnectionClosedWitness ==
    /\ handle = NoHandle
    /\ Len(conns) = 2
    /\ outcome.done
    /\ outcome.fn \in {"shell_stream", "logcat", "iter_content",
                       "iter_directory"}
    /\ outcome.res.ok
    /\ conns[2].peer.buf # <<>>
    /\ ~conns[1].open
    /\ ~conns[2].open



(***************************************************************************)
(* client::adb_device: extract_ip_from_output, is_valid_ipv4 and wlan_ip.  *)
(* The three regular expressions of IP_REGEXES are matched as the regex    *)
(* crate matches them: the leftmost match, every repetition greedy.        *)
(***************************************************************************)
InetStr == <<105, 110, 101, 116>>

AddrStr == <<97, 100, 100, 114, 58>>

NetmaskStr == <<110, 101, 116, 109, 97, 115, 107>>

Slash == 47

Dot == 46

Digits == 48..57

\* the characters of [\d.] among the bytes of the model
DigitOrDot == Digits \cup {Dot}

\* s has lit at position i
HasAt(s, i, lit) ==
    i + Len(lit) - 1 <= Len(s) /\ SubSeq(s, i, i + Len(lit) - 1) = lit

\* the length of the longest run of characters of set in s from position i
RECURSIVE Run(_, _, _)
Run(s, i, set) ==
    IF i > Len(s) THEN 0
    ELSE IF s[i] \in set THEN 1 + Run(s, i + 1, set)
    ELSE 0

\* inet\s+ at position i: the position after it, 0 if it is not there
AfterInet(s, i) ==
    IF HasAt(s, i, InetStr) /\ Run(s, i + 4, Whitespace) >= 1
    THEN i + 4 + Run(s, i + 4, Whitespace)
    ELSE 0

\* group 1 of inet\s+addr:([\d.]+) matched at position i, None if no match
IfconfigAt(s, i) ==
    Bind(AfterInet(s, i), LAMBDA p :
         IF p = 0 \/ ~HasAt(s, p, AddrStr) THEN None
         ELSE IF Run(s, p + 5, DigitOrDot) = 0 THEN None
         ELSE Some(SubSeq(s, p + 5, p + 4 + Run(s, p + 5, DigitOrDot))))

\* group 1 of inet\s+([\d.]+)/\d+ matched at position i
IpCommandAt(s, i) ==
    Bind(AfterInet(s, i), LAMBDA p :
         IF p = 0 THEN None
         ELSE Bind(Run(s, p, DigitOrDot), LAMBDA g :
                   IF g = 0 THEN None
                   ELSE IF ~HasAt(s, p + g, <<Slash>>) THEN None
                   ELSE IF Run(s, p + g + 1, Digits) = 0 THEN None
                   ELSE Some(SubSeq(s, p, p + g - 1))))

\* group 1 of inet\s+([\d.]+)\s+netmask matched at position i
NetmaskAt(s, i) ==
    Bind(AfterInet(s, i), LAMBDA p :
         IF p = 0 THEN None
         ELSE Bind(Run(s, p, DigitOrDot), LAMBDA g :
                   IF g = 0 THEN None
                   ELSE IF Run(s, p + g, Whitespace) = 0 THEN None
                   ELSE IF ~HasAt(s, p + g + Run(s, p + g, Whitespace),
                                  NetmaskStr)
                   THEN None
                   ELSE Some(SubSeq(s, p, p + g - 1))))

\* Regex::captures(output).get(1): the group of the leftmost match
captures(At(_, _), s) ==
    IF \E i \in 1..Len(s) : At(s, i) # None
    THEN At(s, CHOOSE i \in 1..Len(s) :
                   At(s, i) # None /\ \A j \in 1..(i - 1) : At(s, j) = None)
    ELSE None

\* str::parse::<u8>: an optional '+', then digits that make a number up to
\* 255 (strings of more than five digits are not in the model)
parse_u8(s) ==
    Bind(IF s # <<>> /\ s[1] = 43 THEN Drop(s, 1) ELSE s, LAMBDA digits :
         IF digits = <<>> \/ Len(digits) > 5 THEN None
         ELSE IF \E i \in 1..Len(digits) : digits[i] \notin Digits THEN None
         ELSE IF DecNumber(digits) > 255 THEN None
         ELSE Some(DecNumber(digits)))

is_valid_ipv4(ip) ==
    /\ Len(SplitOn(ip, Dot)) = 4
    /\ \A i \in 1..4 : parse_u8(SplitOn(ip, Dot)[i]) # None

\* the valid group of one regex, None if it does not match or the group is
\* no address
ValidCapture(group) ==
    IF group # None /\ is_valid_ipv4(group[1]) THEN group ELSE None

extract_ip_from_output(output) ==
    IF ValidCapture(captures(IfconfigAt, output)) # None
    THEN captures(IfconfigAt, output)
    ELSE IF ValidCapture(captures(IpCommandAt, output)) # None
    THEN captures(IpCommandAt, output)
    ELSE ValidCapture(captures(NetmaskAt, output))

\* interface_commands: the argument vectors of the five probes
interface_commands ==
    <<<<<<105, 112>>, <<97, 100, 100, 114>>, <<115, 104, 111, 119>>,
        <<100, 101, 118>>, <<119, 108, 97, 110, 48>>>>,
      <<<<105, 102, 99, 111, 110, 102, 105, 103>>, <<119, 108, 97, 110,
        48>>>>,
      <<<<105, 112>>, <<97, 100, 100, 114>>, <<115, 104, 111, 119>>,
        <<100, 101, 118>>, <<101, 116, 104, 48>>>>,
      <<<<105, 102, 99, 111, 110, 102, 105, 103>>, <<101, 116, 104,
        48>>>>,
      <<<<105, 112>>, <<114, 111, 117, 116, 101>>, <<103, 101, 116>>,
        <<49, 46, 49, 46, 49, 46, 49>>>>>>

\* what the probes so far dialed, with one more
Dialed(acc, r) == [cs |-> acc.cs \o r.cs, dialed |-> acc.dialed + r.dialed]

\* the loop of wlan_ip from probe i on
RECURSIVE wlan_ip_from(_, _, _, _, _, _, _)
wlan_ip_from(f, dev, i, acc, ss, n, k) ==
    IF i > Len(interface_commands)
    THEN [res |-> from_display("Failed to retrieve WLAN IP from any interface"),
          cs |-> acc.cs, dialed |-> acc.dialed]
    ELSE Bind(shell(f, dev,
                    get_command([kind |-> "Multiple",
                                 parts |-> interface_commands[i]]),
                    NextScript(ss, acc.dialed), n, k),
              LAMBDA r :
              IF r.res.ok /\ extract_ip_from_output(r.res.val) # None
              THEN [res |-> Ok(extract_ip_from_output(r.res.val)[1]),
                    cs |-> acc.cs \o r.cs, dialed |-> acc.dialed + r.dialed]
              ELSE wlan_ip_from(f, dev, i + 1, Dialed(acc, r), ss, n, k))

\* wlan_ip without its first probe
wlan_ip_skip_first(f, dev, ss, n, k) ==
    wlan_ip_from(f, dev, 2, [cs |-> <<>>, dialed |-> 0], ss, n, k)

wlan_ip(f, dev, ss, n, k) ==
    wlan_ip_from(f, dev, 1, [cs |-> <<>>, dialed |-> 0], ss, n, k)

(***************************************************************************)
(* SpecWlan: wlan_ip on a device of serial S, run once through each        *)
(* facade against a server that answers the five probes, each on its own   *)
(* connection, with one of WlanScripts.                                    *)
(***************************************************************************)
\* shell outputs: an address as `ip addr` prints it; as ifconfig prints
\* it; with a netmask; a dotted quad that is no address
WlanOutputs ==
    {<<105, 110, 101, 116, 32, 49, 48, 46, 48, 46, 48, 46, 50, 47, 56>>,
     <<105, 110, 101, 116, 32, 97, 100, 100, 114, 58, 49, 48, 46, 48, 46,
       48, 46, 51>>,
     <<105, 110, 101, 116, 32, 49, 48, 46, 48, 46, 48, 46, 52, 32, 110,
       101, 116, 109, 97, 115, 107>>,
     <<105, 110, 101, 116, 32, 57, 57, 57, 46, 48, 46, 48, 46, 49, 47, 56>>}

\* the server refuses the connection, or runs the command and closes
WlanScripts ==
    {RawScript(FALSE, <<>>, "eof")}
    \cup {RawScript(TRUE, OKAY \o OKAY \o o, "eof") : o \in WlanOutputs}

WlanCalls ==
    {[fn |-> "wlan_ip", dev |-> [serial |-> Some(<<83>>), transport_id |-> None],
      ss |-> ss, k |-> k] :
        ss \in [1..5 -> WlanScripts], k \in Segs}

InitWlan ==
    /\ call \in WlanCalls
    /\ ret = [f \in Facades |-> None]
    /\ IdleProto
    /\ IdleConnect
    /\ IdleDevice

WlanBlocking ==
    /\ ret["blocking"] = None
    /\ ret' = [ret EXCEPT !["blocking"] =
                 Some(wlan_ip("blocking", call.dev, call.ss, 1, call.k))]
    /\ UNCHANGED <<call, protoVars, connectVars, deviceVars>>

WlanAsync ==
    /\ ret["tokio_async"] = None
    /\ ret' = [ret EXCEPT !["tokio_async"] =
                 Some(wlan_ip("tokio_async", call.dev, call.ss, 1, call.k))]
    /\ UNCHANGED <<call, protoVars, connectVars, deviceVars>>

NextWlan == WlanBlocking \/ WlanAsync

SpecWlan == InitWlan /\ [][NextWlan]_vars



(***************************************************************************)
(* C24.  wlan_ip runs its probes in the order `ip addr show dev wlan0`,    *)
(* `ifconfig wlan0`, `ip addr show dev eth0`, `ifconfig eth0`,             *)
(* `ip route get 1.1.1.1`, each as a shell command on a connection of its  *)
(* own.  A probe that fails, or whose output holds no address, is passed   *)
(* over; the first probe whose output holds a valid dotted quad ends the   *)
(* call, which returns that address and runs no further probe; the call    *)
(* fails only when all five probes gave nothing.  Checked under SpecWlan   *)
(* in both facades.                                                        *)
(***************************************************************************)
WlanProbes ==
    <<<<105, 112, 32, 97, 100, 100, 114, 32, 115, 104, 111, 119, 32,
        100, 101, 118, 32, 119, 108, 97, 110, 48>>,
      <<105, 102, 99, 111, 110, 102, 105, 103, 32, 119, 108, 97, 110,
        48>>,
      <<105, 112, 32, 97, 100, 100, 114, 32, 115, 104, 111, 119, 32,
        100, 101, 118, 32, 101, 116, 104, 48>>,
      <<105, 102, 99, 111, 110, 102, 105, 103, 32, 101, 116, 104, 48>>,
      <<105, 112, 32, 114, 111, 117, 116, 101, 32, 103, 101, 116, 32,
        49, 46, 49, 46, 49, 46, 49>>>>

\* what probe i gives when run on its own against the i-th connection
ProbeYield(f, i) ==
    Bind(shell(f, call.dev, WlanProbes[i], call.ss[i], 1, call.k), LAMBDA r :
         IF r.res.ok THEN extract_ip_from_output(r.res.val) ELSE None)

\* the shell requests of the probes 1..m the server accepted, in order
RECURSIVE ProbeFrames(_)
ProbeFrames(m) ==
    IF m = 0 THEN <<>>
    ELSE ProbeFrames(m - 1)
             \o (IF call.ss[m].up
                 THEN <<FormatHex04(Len(ShellStr \o WlanProbes[m]))
                            \o ShellStr \o WlanProbes[m]>>
                 ELSE <<>>)

\* r ran the probes 1..m, nothing else
RanProbes(r, m) ==
    /\ r.dialed = m
    /\ [j \in 1..Len(r.cs) |-> r.cs[j].sent[2].bytes] = ProbeFrames(m)

\* four decimal numbers up to 255 with dots between them
IsDottedQuad(ip) ==
    /\ Len(SplitOn(ip, Dot)) = 4
    /\ \A i \in 1..4 :
           LET part == SplitOn(ip, Dot)[i]
           IN  /\ part # <<>>
               /\ \A j \in 1..Len(part) : part[j] \in Digits
               /\ DecNumber(part) <= 255

\* what the five probes give, each on its own
ProbeYields(f) == [i \in 1..5 |-> ProbeYield(f, i)]

\* the first probe in y that gives an address, 0 if none does
FirstYield(y) ==
    IF \A i \in 1..5 : y[i] = None THEN 0
    ELSE CHOOSE i \in 1..5 : y[i] # None /\ \A j \in 1..(i - 1) : y[j] = None

\* r is what wlan_ip owes when the probes give y and the first address is
\* that of probe i
FirstProbeWins(r, y, i) ==
    IF i = 0 THEN ~r.res.ok /\ RanProbes(r, 5)
    ELSE /\ r.res = Ok(y[i][1])
         /\ IsDottedQuad(r.res.val)
         /\ RanProbes(r, i)

WlanIpFirstProbe ==
    \A f \in Facades :
        ret[f] # None
        => Bind(ProbeYields(f), LAMBDA y :
                FirstProbeWins(ret[f][1], y, FirstYield(y)))

\* the first probe is refused, the second prints a quad that is no address,
\* the third prints an address: it is returned, and the last two are not run
WlanIpWitness ==
    /\ ret["blocking"] # None
    /\ ret["tokio_async"] # None
    /\ ~call.ss[1].up
    /\ call.ss[2].up
    /\ Len(call.ss[2].buf) > 8
    /\ FirstYield(ProbeYields("blocking")) = 3
    /\ call.ss[4].up
    /\ ret["blocking"][1].res.ok
    /\ ret["blocking"][1].dialed = 3
    /\ Len(ret["blocking"][1].cs) = 2



(***************************************************************************)
(* C25.  When a read fails while shell(cmd) is collecting the output, the  *)
(* caller gets the error together with the output read before it: the      *)
(* bytes already received are not thrown away.  Checked under SpecFacades  *)
(* in both facades on the servers whose connection breaks after some       *)
(* output.                                                                 *)
(***************************************************************************)
\* the server accepts both commands, sends some output, and the connection
\* is reset
ShellBroken(f) ==
    /\ ret[f] # None
    /\ call.fn = "shell"
    /\ BySerial
    /\ call.ss[1].up
    /\ Take(call.ss[1].buf, 8) = OKAY \o OKAY
    /\ Len(call.ss[1].buf) > 8
    /\ call.ss[1].tail = "err"

\* res is an error that holds the output read before it
WithPartialOutput(res, output) ==
    /\ ~res.ok
    /\ "output" \in DOMAIN res
    /\ res.output = output

ShellKeepsPartialOutput ==
    \A f \in Facades :
        ShellBroken(f)
        => WithPartialOutput(ret[f][1].res, from_utf8_lossy(ShellOutput))



(***************************************************************************)
(* C26.  shell_trim(cmd) returns what shell(cmd) returns with the trailing *)
(* whitespace removed and nothing else: whitespace at the beginning and    *)
(* inside the output stays.  Checked under SpecFacades in both facades,    *)
(* against the result of shell on the same server bytes.                   *)
(***************************************************************************)
\* s without the whitespace at its end
RECURSIVE WithoutTrailing(_)
WithoutTrailing(s) ==
    IF s = <<>> THEN s
    ELSE IF s[Len(s)] \in Whitespace
    THEN WithoutTrailing(SubSeq(s, 1, Len(s) - 1))
    ELSE s

TrimsTrailingOnly(res, plain) ==
    IF plain.ok THEN res = Ok(WithoutTrailing(plain.val)) ELSE res = plain

ShellTrimTrailingOnly ==
    \A f \in Facades :
        (ret[f] # None /\ call.fn = "shell_trim")
        => TrimsTrailingOnly(ret[f][1].res,
                             shell(f, call.dev, CmdA, call.ss[1], 1,
                                   call.k).res)



(***************************************************************************)
(* C27.  reverse(remote, local, norebind) writes a request built like      *)
(* forward's `forward[:norebind]:<local>;<remote>`: a reverse verb,        *)
(* `:norebind` if and only if norebind is set, then the two endpoint specs *)
(* with one `;` and no `:` between them; and the request is not one that   *)
(* forward writes.  Checked under SpecFacades in both facades, where       *)
(* reverse("r", "l", false) is called on the device of serial S.           *)
(***************************************************************************)
ReverseStr == <<114, 101, 118, 101, 114, 115, 101>>

Contains(s, sub) == \E i \in 1..Len(s) : HasAt(s, i, sub)

EndsWith(s, suffix) ==
    Len(s) >= Len(suffix) /\ Drop(s, Len(s) - Len(suffix)) = suffix

\* the command reverse wrote behind the device selector host-serial:S:
ReverseRequest(r) ==
    Drop(r.cs[1].sent[1].bytes,
         4 + Len(HostSerialStr \o call.dev.serial[1] \o Colon))

ReverseSyntaxOf(req) ==
    /\ Contains(Take(req, Len(ReverseStr) + 1), ReverseStr)
    /\ ~Contains(req, NorebindStr)
    /\ \/ EndsWith(req, Colon \o LocalL \o Semicolon \o RemoteR)
       \/ EndsWith(req, Colon \o RemoteR \o Semicolon \o LocalL)
    /\ Take(req, Len(ForwardStr) + 1) # ForwardStr \o Colon

ReverseSyntax ==
    \A f \in Facades :
        (/\ ret[f] # None
         /\ call.fn = "reverse"
         /\ BySerial
         /\ call.ss[1].up)
        => ReverseSyntaxOf(ReverseRequest(ret[f][1]))



(***************************************************************************)
(* C28.  When the server answers the forward request with FAIL and a       *)
(* message, forward returns an error that holds the message as sent; when  *)
(* the connection cannot be made, it returns a connection error, not the   *)
(* failure it returns for a FAIL.  Checked under SpecFacades in both       *)
(* facades with every read complete.                                       *)
(***************************************************************************)
\* the error e, or an error it wraps, has the server's message m
RECURSIVE CarriesMessage(_, _)
CarriesMessage(e, m) ==
    \/ e.kind \in {"NetworkError", "CommandFailed"} /\ e.msg = m
    \/ "cause" \in DOMAIN e /\ CarriesMessage(e.cause, m)

IsConnectionError(e) ==
    e.kind \in {"ConnectionFailed", "NetworkError", "Io"}

ForwardCalled(f) ==
    /\ ret[f] # None
    /\ call.fn = "forward"
    /\ BySerial
    /\ call.k = ReadChunk

ForwardErrors ==
    \A f \in Facades :
        ForwardCalled(f)
        => /\ (call.ss[1].up /\ call.ss[1].buf = FAIL \o FormatHex04(1) \o CmdA)
              => (~ret[f][1].res.ok /\ CarriesMessage(ret[f][1].res, CmdA))
           /\ ~call.ss[1].up
              => (~ret[f][1].res.ok /\ IsConnectionError(ret[f][1].res))



(***************************************************************************)
(* SpecErrors: the classification of AdbError values.  The call holds one  *)
(* error of any variant; is_retryable() and is_fatal() are applied to it   *)
(* in either order.                                                        *)
(***************************************************************************)
ErrorMessages == {"", "a", "closed"}

\* the variants of AdbError with one message field
MessageKinds ==
    {"ConnectionFailed", "DeviceNotFound", "ProtocolError", "ParseError",
     "NetworkError", "PermissionDenied", "Io", "Regex", "Utf8", "ParseInt",
     "Json", "SystemTime", "Unknown"}

timeout(seconds) == [ok |-> FALSE, kind |-> "Timeout", seconds |-> seconds]

file_operation_failed(operation, path) ==
    [ok |-> FALSE, kind |-> "FileOperationFailed", operation |-> operation,
     path |-> path]

application_error(package_name, msg) ==
    [ok |-> FALSE, kind |-> "ApplicationError", package_name |-> package_name,
     msg |-> msg]

AdbErrors ==
    {Err(kind, m) : kind \in MessageKinds, m \in ErrorMessages}
        \cup {command_failed(c, m) : c \in {"", "shell"}, m \in ErrorMessages}
        \cup {timeout(t) : t \in {0, DEFAULT_ADB_TIMEOUT, 30}}
        \cup {file_operation_failed(o, m) : o \in {"push", "pull"}, m \in ErrorMessages}
        \cup {application_error("p", m) : m \in ErrorMessages}
        \cup {anyhow_context(Err(kind, "a"), m) :
                  kind \in {"Io", "ParseError"}, m \in ErrorMessages}

InitErrors ==
    /\ call \in {[fn |-> "classify", err |-> e] : e \in AdbErrors}
    /\ ret = NoRet
    /\ IdleProto
    /\ IdleConnect
    /\ IdleDevice

\* what the caller knows so far, with one more answer
Answered(field, v) ==
    [x \in (DOMAIN ret) \cup {field} |->
        IF x = field THEN v ELSE IF x = "done" THEN TRUE ELSE ret[x]]

IsRetryable ==
    /\ call.fn = "classify"
    /\ "retryable" \notin DOMAIN ret
    /\ ret' = Answered("retryable", is_retryable(call.err))
    /\ UNCHANGED <<call, protoVars, connectVars, deviceVars>>

IsFatal ==
    /\ call.fn = "classify"
    /\ "fatal" \notin DOMAIN ret
    /\ ret' = Answered("fatal", is_fatal(call.err))
    /\ UNCHANGED <<call, protoVars, connectVars, deviceVars>>

NextErrors == IsRetryable \/ IsFatal

SpecErrors == InitErrors /\ [][NextErrors]_vars

(***************************************************************************)
(* C29.  is_retryable() is true for ConnectionFailed, NetworkError and     *)
(* Timeout, false for DeviceNotFound, CommandFailed, ProtocolError,        *)
(* ParseError, FileOperationFailed and PermissionDenied; and for no        *)
(* AdbError are is_retryable() and is_fatal() both true.                   *)
(***************************************************************************)
TableRetryable == {"ConnectionFailed", "NetworkError", "Timeout"}

TableNotRetryable ==
    {"DeviceNotFound", "CommandFailed", "ProtocolError", "ParseError",
     "FileOperationFailed", "PermissionDenied"}

ErrorClassification ==
    call.fn = "classify"
    => /\ ("retryable" \in DOMAIN ret /\ call.err.kind \in TableRetryable)
          => ret.retryable
       /\ ("retryable" \in DOMAIN ret /\ call.err.kind \in TableNotRetryable)
          => ~ret.retryable
       /\ ({"retryable", "fatal"} \subseteq DOMAIN ret)
          => ~(ret.retryable /\ ret.fatal)

ErrorClassificationWitness ==
    /\ call.fn = "classify"
    /\ {"retryable", "fatal"} \subseteq DOMAIN ret
    /\ call.err.kind = "ParseError"
    /\ ~ret.retryable
    /\ ret.fatal



(***************************************************************************)
(* C30.  On every connection the writes follow the protocol: a stage-2     *)
(* command is written only when the server answered the selector prefix    *)
(* with OKAY, a SYNC request only when it answered "sync:" with OKAY; and  *)
(* when a status word is not OKAY, the operation fails and that write is   *)
(* the last one on the connection.  Checked under SpecFacades, where the   *)
(* i-th connection an operation dials is served by the i-th script.        *)
(***************************************************************************)
\* the j-th status word the server sends on a connection served by script
StatusWord(script, j) == Take(Drop(script.buf, 4 * (j - 1)), 4)

\* the connections of r were all accepted, so that r.cs[i] is served by
\* call.ss[i]
ServedInOrder(r) ==
    /\ r.dialed = Len(r.cs)
    /\ r.dialed <= Len(call.ss)
    /\ \A i \in 1..r.dialed : call.ss[i].up

\* the result of the operation that dialed the i-th connection of r: r's
\* own, or that of the call made first by logcat (shell "logcat -c") or by
\* forward_remote_port (forward_list)
OwnerResult(f, r, i) ==
    IF i = Len(r.cs) THEN r.res
    ELSE IF call.fn = "forward_remote_port"
    THEN forward_list(f, call.dev, call.ss[1], 1, call.k).res
    ELSE shell(f, call.dev, LogcatClearStr, call.ss[1], 1, call.k).res

WritesInOrder(f, r, i) ==
    Bind(r.cs[i], LAMBDA c :
    Bind(call.ss[i], LAMBDA script :
         /\ Writes(c, "stage2") # {} => StatusWord(script, 1) = OKAY
         /\ Writes(c, "sync") # {}
            => /\ Writes(c, "stage2") = {2}
               /\ c.sent[2].bytes = build_command_packet(SyncStr)
               /\ StatusWord(script, 1) = OKAY
               /\ StatusWord(script, 2) = OKAY
         /\ StatusWord(script, 1) # OKAY
            => Len(c.sent) = 1 /\ ~OwnerResult(f, r, i).ok
         /\ (Writes(c, "stage2") # {} /\ StatusWord(script, 2) # OKAY)
            => Len(c.sent) = 2 /\ ~OwnerResult(f, r, i).ok))

WritesInProtocolOrder ==
    \A f \in Facades :
        (ret[f] # None /\ ServedInOrder(ret[f][1]))
        => \A i \in 1..Len(ret[f][1].cs) : WritesInOrder(f, ret[f][1], i)

\* "sync:" answered with FAIL: two writes and no request; and, on another
\* run, a request written behind two OKAYs
SyncRefused(f) ==
    /\ ret[f] # None
    /\ call.fn = "stat"
    /\ ServedInOrder(ret[f][1])
    /\ Len(ret[f][1].cs) = 1
    /\ StatusWord(call.ss[1], 1) = OKAY
    /\ StatusWord(call.ss[1], 2) = FAIL
    /\ Len(ret[f][1].cs[1].sent) = 2
    /\ ~ret[f][1].res.ok

WritesInProtocolOrderWitness == \A f \in Facades : SyncRefused(f)



(***************************************************************************)
(* C31.  iter_content, when the RECV reply is DATA(p1) .. DATA(pn) DONE:   *)
(* the stream yields the n payloads in order as valid items and then ends, *)
(* with no error item at DONE.  Checked under SpecStream, in both facades, *)
(* on a stream that has returned None.                                     *)
(***************************************************************************)
HoldsRecv(tag) ==
    /\ handle.kind = "iter_content"
    /\ conns[handle.conn].plan.kind = "recv"
    /\ conns[handle.conn].plan.term.tag = tag

HasEnded == \E i \in 1..Len(handle.items) : handle.items[i] = None

ContentEndsAtDone ==
    (HoldsRecv("DONE") /\ HasEnded)
    => /\ UpToNone(handle.items)
              = [i \in 1..Len(conns[handle.conn].plan.chunks) |->
                    Ok(conns[handle.conn].plan.chunks[i])]
       /\ \A i \in 1..Len(handle.items) :
              i > Len(conns[handle.conn].plan.chunks) => handle.items[i] = None



(***************************************************************************)
(* C32.  iter_content, when the chunk loop reads a tag that is not DATA,   *)
(* DONE or FAIL: the stream yields the payloads before it, then one        *)
(* protocol-error item, and then ends; it does not end as it does at DONE. *)
(* Checked under SpecStream on the tag "QUIT".                             *)
(***************************************************************************)
IsProtocolError(item) ==
    IF item.ok THEN FALSE ELSE item.kind = "ProtocolError"

UnknownTagIsProtocolError ==
    (HoldsRecv("QUIT") /\ HasEnded)
    => /\ Len(UpToNone(handle.items))
              = Len(conns[handle.conn].plan.chunks) + 1
       /\ IsProtocolError(UpToNone(handle.items)[Len(UpToNone(handle.items))])



(***************************************************************************)
(* C33.  A buffered SYNC operation returns an error, never Ok, when the    *)
(* stream ends otherwise than by DONE: FAIL, an unknown tag, a read error  *)
(* or an early close.  Checked under SpecStream on pull, in both facades.  *)
(***************************************************************************)
PulledRecv ==
    /\ call.fn = "pull"
    /\ Len(conns) = 1
    /\ conns[1].plan.kind = "recv"

PullFailsWithoutDone ==
    (PulledRecv /\ conns[1].plan.term.tag # "DONE") => ~outcome.res.ok



(***************************************************************************)
(* C34.  read_response takes the 4 header bytes, then the n payload bytes  *)
(* the header announces, and nothing more, however the transport splits    *)
(* the reply into reads.  Checked under SpecClient on server_version and   *)
(* list_devices, which call it after the status word: when the connection  *)
(* holds OKAY, a header and a payload, with or without another reply       *)
(* behind them, the call takes exactly these bytes, and list_devices       *)
(* returns the devices of the payload.                                     *)
(***************************************************************************)
\* the framed replies the server of SpecClient sends after OKAY
FramedOkay == {r \in Replies : Len(r) > 4 /\ Take(r, 4) = OKAY}

\* a host query made in this step finds the reply r at the head of its
\* connection
QueryFinds(r) ==
    /\ client # NoHandle
    /\ call'.n = call.n + 1
    /\ call'.fn \in {"server_version", "list_devices"}
    /\ Take(conns[client.conn].peer.buf, Len(r)) = r

ReadResponseWholeBlock ==
    [][\A r \in FramedOkay :
           QueryFinds(r)
           => /\ Taken = r
              /\ call'.fn = "list_devices" => outcome'.res.ok]_vars



(***************************************************************************)
(* C35.  prepare_sync, once "sync:" is acknowledged, writes the tag, the   *)
(* little-endian u32 length of the path and the path, and writes all of    *)
(* it, also when the socket takes only a part of the buffer in one write.  *)
(* Checked under SpecFacades on stat (STAT), iter_directory (LIST) and     *)
(* iter_content (RECV), on sockets that take the whole buffer in one write *)
(* and on sockets that take one byte.                                      *)
(***************************************************************************)
SyncTag(fn) ==
    IF fn = "stat" THEN STAT ELSE IF fn = "iter_directory" THEN LIST ELSE RECV

SyncRequested(f) ==
    /\ ret[f] # None
    /\ call.fn \in {"stat", "iter_directory", "iter_content"}
    /\ Len(ret[f][1].cs) = 1
    /\ Writes(ret[f][1].cs[1], "sync") # {}

SyncRequestWhole ==
    \A f \in Facades :
        SyncRequested(f)
        => ret[f][1].cs[1].sent[3].bytes
               = SyncTag(call.fn) \o ToLE32(Len(PathP)) \o PathP



(***************************************************************************)
(* C36.  A device transport is opened only when exactly one of serial and  *)
(* transport_id is set: with neither, or with both, the operation returns  *)
(* an error, dials no connection and writes nothing.  Checked under        *)
(* SpecFacades on every operation of a device with no identifier and of a  *)
(* device with both.                                                       *)
(***************************************************************************)
ExactlyOneId(dev) == (dev.serial = None) # (dev.transport_id = None)

TransportNeedsOneId ==
    \A f \in Facades :
        (ret[f] # None /\ ~ExactlyOneId(call.dev))
        => /\ ~ret[f][1].res.ok
           /\ ret[f][1].dialed = 0
           /\ ret[f][1].cs = <<>>



(***************************************************************************)
(* C37.  Whatever the server sends after a SYNC request, and however the   *)
(* transport splits it into reads, stat, iter_directory and iter_content   *)
(* return a value or an error and never panic, and neither does a next()   *)
(* on what they returned.  Checked under SpecStream.                       *)
(***************************************************************************)
IsPanicResult(res) == IF res.ok THEN FALSE ELSE res.kind = "panic"

SyncNeverPanics ==
    /\ (outcome.done /\ call.fn \in {"stat", "exists", "iter_directory",
                                     "iter_content"})
       => ~IsPanicResult(outcome.res)
    /\ handle.kind \in {"iter_directory", "iter_content"}
       => \A i \in 1..Len(handle.items) : ~IsPanic(handle.items[i])



(***************************************************************************)
(* C38.  The blocking iterators of iter_content and iter_directory are     *)
(* fused: once next() has returned None, every later next() returns None   *)
(* and takes no byte from the connection.  Checked under SpecStream on     *)
(* every next() that follows a None.                                       *)
(***************************************************************************)
NextAfterNone ==
    /\ facade = "blocking"
    /\ handle.kind \in {"iter_content", "iter_directory"}
    /\ HasEnded
    /\ handle'.kind = handle.kind
    /\ handle'.polls = handle.polls + 1

BlockingIteratorsFused ==
    [][NextAfterNone
       => /\ handle'.items[Len(handle'.items)] = None
          /\ conns'[handle.conn].peer.buf = conns[handle.conn].peer.buf]_vars



(***************************************************************************)
(* SpecPush: push and install, which run the external adb executable.      *)
(* adb is where adb_path() looks for it: path is "none" when adb_path      *)
(* fails, "dangling" when it names no file, "file" otherwise; spawn says   *)
(* whether the process can be started, status is its exit status and       *)
(* stdout what it printed.  install then runs `pm install` and `rm`        *)
(* through shell on the connections served by ss.                          *)
(***************************************************************************)
SuccessStr == <<83, 117, 99, 99, 101, 115, 115>>

FailureStr == <<70, 97, 105, 108, 117, 114, 101>>

\* the remote path install pushes to, "/t"
DstPath == <<47, 116>>

PmInstallArgs ==
    <<<<112, 109>>, <<105, 110, 115, 116, 97, 108, 108>>, <<45, 114>>,
      <<45, 116>>, DstPath>>

RmArgs == <<<<114, 109>>, DstPath>>

\* std::process::Command::output(): Err when the process cannot be
\* started, else the output, whatever the exit status
adb_output(f, dev, adb) ==
    IF adb.path = "none" THEN anyhow_context(from_display("adb not found"), "")
    ELSE IF adb.path = "dangling" THEN from_display("adb not found")
    ELSE IF f = "blocking"
    THEN IF dev.serial = None THEN Panic("unwrap on None")
         ELSE IF ~adb.spawn THEN Panic("failed to execute process")
         ELSE Ok(from_utf8_lossy(adb.stdout))
    ELSE IF dev.serial = None THEN from_display("adb not found")
         ELSE IF ~adb.spawn THEN io_error("spawn failed")
         ELSE Ok(from_utf8_lossy(adb.stdout))

push(f, dev, adb) ==
    Bind(adb_output(f, dev, adb), LAMBDA o :
         IF o.ok THEN Ok(<<>>)
         ELSE IF o.kind = "panic" THEN o
         ELSE from_display("push error"))

\* two results in a row: the connections of both
Then(a, b) == [res |-> b.res, cs |-> a.cs \o b.cs, dialed |-> a.dialed + b.dialed]

install_remote(f, dev, ss, n, k) ==
    Bind(shell(f, dev, get_command([kind |-> "Multiple", parts |-> PmInstallArgs]),
               ss[1], n, k),
         LAMBDA o :
         IF ~o.res.ok THEN o
         ELSE IF ~Contains(o.res.val, SuccessStr)
         THEN [o EXCEPT !.res = IF f = "blocking"
                                THEN from_display("fail to install")
                                ELSE anyhow_context(
                                         from_display("fail to install"), "")]
         ELSE Bind(shell(f, dev,
                         get_command([kind |-> "Multiple", parts |-> RmArgs]),
                         ss[2], n, k),
                   LAMBDA r :
                   IF ~r.res.ok THEN Then(o, r)
                   ELSE Then(o, [r EXCEPT !.res = o.res])))

\* install of a local file
install(f, dev, adb, ss, n, k) ==
    Bind(push(f, dev, adb), LAMBDA p :
         IF ~p.ok THEN [res |-> p, cs |-> <<>>, dialed |-> 0]
         ELSE Bind(install_remote(f, dev, ss, n, k), LAMBDA i :
                   IF i.res.ok THEN [i EXCEPT !.res = Ok(<<>>)]
                   ELSE IF f = "blocking"
                   THEN [i EXCEPT !.res = from_display("fail to install apk")]
                   ELSE i))

\* the adb executable: the process that fails prints nothing
AdbEnvs ==
    {[path |-> p, spawn |-> s, status |-> st,
      stdout |-> IF st = 0 THEN <<49>> ELSE <<>>] :
        p \in {"none", "dangling", "file"}, s \in BOOLEAN, st \in {0, 1}}

InstallScripts ==
    {RawScript(FALSE, <<>>, "eof"),
     RawScript(TRUE, OKAY \o OKAY \o SuccessStr, "eof"),
     RawScript(TRUE, OKAY \o OKAY \o FailureStr, "eof")}

PushCalls ==
    {[fn |-> fn, dev |-> d, adb |-> a, ss |-> <<s1, s2>>, k |-> k] :
        fn \in {"push", "install"},
        d \in {[serial |-> Some(<<83>>), transport_id |-> None],
               [serial |-> None, transport_id |-> Some(1)]},
        a \in AdbEnvs, s1 \in InstallScripts, s2 \in SecondScripts,
        k \in Segs}

OperatePush(f, c) ==
    IF c.fn = "push"
    THEN [res |-> push(f, c.dev, c.adb), cs |-> <<>>, dialed |-> 0]
    ELSE install(f, c.dev, c.adb, c.ss, 1, c.k)

InitPush ==
    /\ call \in PushCalls
    /\ ret = [f \in Facades |-> None]
    /\ IdleProto
    /\ IdleConnect
    /\ IdleDevice

PushBlocking ==
    /\ ret["blocking"] = None
    /\ ret' = [ret EXCEPT !["blocking"] = Some(OperatePush("blocking", call))]
    /\ UNCHANGED <<call, protoVars, connectVars, deviceVars>>

PushAsync ==
    /\ ret["tokio_async"] = None
    /\ ret' = [ret EXCEPT !["tokio_async"] =
                  Some(OperatePush("tokio_async", call))]
    /\ UNCHANGED <<call, protoVars, connectVars, deviceVars>>

NextPush == PushBlocking \/ PushAsync

SpecPush == InitPush /\ [][NextPush]_vars

(***************************************************************************)
(* C39.  push returns Ok only if the adb process ran and exited with       *)
(* success; when it exits with a failure status push returns an error,     *)
(* and install then returns an error without running `pm install`: it      *)
(* dials no connection.  Checked under SpecPush in both facades.           *)
(***************************************************************************)
AdbSucceeded == call.adb.path = "file" /\ call.adb.spawn /\ call.adb.status = 0

PushReportsFailure ==
    \A f \in Facades :
        (ret[f] # None /\ ~AdbSucceeded)
        => ~ret[f][1].res.ok /\ ret[f][1].dialed = 0



(***************************************************************************)
(* C40.  pull(remote, dest) does the same whether dest exists before the   *)
(* call or not: the payload received is written to dest and its length is  *)
(* returned; the call neither fails nor panics because dest was there.     *)
(* Checked under SpecStream on every pull of a DATA .. DONE reply into a   *)
(* destination that exists.                                                *)
(***************************************************************************)
PullsOver ==
    /\ fs.exists
    /\ call'.fn = "pull"
    /\ call'.n = call.n + 1
    /\ Len(conns') = 1
    /\ conns'[1].plan.kind = "recv"
    /\ conns'[1].plan.term.tag = "DONE"

PullOverExistingDest ==
    [][PullsOver
       => /\ outcome'.res = Ok(Len(Concat(conns'[1].plan.chunks)))
          /\ EndsWith(fs'.content, Concat(conns'[1].plan.chunks))]_vars

=============================================================================
